---- MODULE Spec2Model ----
(***************************************************************************)
(* A model of the session engine of xyzj/llm: the ring-buffer History      *)
(* (history/history.go), the streaming assembler Chat.doStream and the     *)
(* turn lock of Chat.Chat (chat/chat.go), the tool dispatch and the        *)
(* registry with its sweep (chats_manager.go), the storage they use        *)
(* (storage/memory.go, FileStorage, RedisStorage), the tool catalogue of  *)
(* the McpClient (mcp/mcpcli.go), the request Chat.Chat builds from its    *)
(* options, and the two phases of a registry turn.                         *)
(*                                                                         *)
(* The module holds several specifications over one set of variables; each *)
(* specification moves the variables of one component and leaves the       *)
(* others at their initial value.                                          *)
(***************************************************************************)
EXTENDS Integers, Sequences, FiniteSets, TLC

VARIABLES
    h,          \* SpecHistory: the History under test (ring slots + position)
    log,        \* SpecHistory: every message appended so far, in append order
    capacity,   \* SpecHistory: the context history.New was called with
    sliced,     \* SpecHistoryOps: the latest Slice() calls since the last write
    chat,       \* SpecStream: the Chat object: its history and its locker
    pc,         \* SpecStream: where the one Chat.Chat call stands
    toolCallMap,\* SpecStream: doStream's local map, call id -> ToolCall
    lastCallID, \* SpecStream: doStream's local lastCallID
    message,    \* SpecStream: doStream's strings.Builder
    sink,       \* SpecStream: the byte strings handed to the write function w
    ret,        \* SpecStream: what Chat.Chat returned (map or nil, error)
    inMessage,  \* SpecStream: the message argument of the call
    rText,      \* SpecStream: the (role, content) of every fragment received
    rCalls,     \* SpecStream: every tool-call delta received, in arrival order
    toolcall,   \* SpecDispatch: the map Phase A returned, call id -> ToolCall
    idx,        \* SpecDispatch: McpClient.idx, tool name -> server key
    mainPc,     \* SpecDispatch: where ChatsManager.Chat stands in the dispatch
    workerPc,   \* SpecDispatch: per call id, where its wg.Go goroutine stands
    workerMsg,  \* SpecDispatch: per call id, the message Call returned
    wg,         \* SpecDispatch: the counter of the sync.WaitGroup
    chanMsgs,   \* SpecDispatch: the buffered channel (its queue)
    msgs,       \* SpecDispatch: the slice the collector appends to
    ctxdone,    \* SpecDispatch: whether cancel() has been called
    crashed,    \* SpecDispatch: a goroutine panicked, the process is gone
    handed,     \* SpecDispatch: the list passed to Phase B ("none" before)
    chats,      \* SpecManager: the registry, key -> index into sessions
    sessions,   \* SpecManager: every Chat object created so far
    dataStorage,\* SpecManager: the MemoryStorage map, key -> message list
    now,        \* the clock time.Now() and time.Since read
    calls,      \* SpecManager: the ChatsManager.Chat calls in Phase A
    started,    \* SpecManager: how many ChatsManager.Chat calls have begun
    sweepCalls, \* SpecManager: the Store calls the step just taken made
    sweepRemoved, \* SpecManager: the keys the step just taken deleted
    returned,   \* SpecManager: the ChatsManager.Chat call the step just taken ended
    turns,      \* SpecLock: per caller, where its Chat.Chat call stands
    impl,       \* SpecStorage: which Storage implementation is under test
    db,         \* SpecStorage: the backend's content, key -> stored value
    stored,     \* SpecStorage: per key, the list of the latest Store call
    loaded,     \* SpecStorage: the Load call the step just taken made
    clis,       \* SpecCatalogue: McpClient.clis, server key -> uri
    tools,      \* SpecCatalogue: McpClient.tools, a set of *model.Tool
    toolIdx,    \* SpecCatalogue: McpClient.idx, tool name -> server key
    regs,       \* SpecCatalogue: the registrations since the last Clear, in order
    panicked,   \* SpecCatalogue: a call of the McpClient panicked
    sess,       \* SpecRequest, SpecTurn: the History of the one Chat
    issued,     \* SpecRequest, SpecTurn: the Chat.Chat calls made so far, each
                \* with its options, its request and the history it left
    nreq,       \* SpecRequest: how many calls the Chat has seen
    cfg,        \* SpecTurn: the registry's roleSystem and tool catalogue
    tpc,        \* SpecTurn: where ChatsManager.Chat stands
    phaseA,     \* SpecTurn: what Phase A returned: number of tool calls, error
    tgo,        \* SpecTurn: how many goroutines the turn has started
    tinvoked,   \* SpecTurn: how many McpClient.Call invocations were made
    twg,        \* SpecTurn: the counter of the sync.WaitGroup
    tmsgs,      \* SpecTurn: the tool-result messages aggregated so far
    pending     \* SpecTurn: the tool calls whose goroutine has not returned

histVars == <<h, log, capacity, sliced>>

streamVars == <<chat, pc, toolCallMap, lastCallID, message, sink, ret,
                inMessage, rText, rCalls>>

dispVars == <<toolcall, idx, mainPc, workerPc, workerMsg, wg, chanMsgs, msgs,
              ctxdone, crashed, handed>>

mgrVars == <<chats, sessions, dataStorage, now, calls, started, sweepCalls,
             sweepRemoved, returned>>

lockVars == <<turns>>

storVars == <<impl, db, stored, loaded>>

mcpVars == <<clis, tools, toolIdx, regs, panicked>>

reqVars == <<sess, issued, nreq>>

turnVars == <<cfg, tpc, phaseA, tgo, tinvoked, twg, tmsgs, pending>>

otherThanHist == <<streamVars, dispVars, mgrVars, lockVars, storVars, mcpVars,
                   reqVars, turnVars>>

otherThanStream == <<histVars, dispVars, mgrVars, lockVars, storVars,
                     mcpVars,
                   reqVars, turnVars>>

otherThanDisp == <<histVars, streamVars, mgrVars, lockVars, storVars, mcpVars,
                   reqVars, turnVars>>

otherThanLock == <<histVars, dispVars, mgrVars, pc, toolCallMap, lastCallID,
                   message, sink, ret, inMessage, rText, rCalls, storVars,
                   mcpVars,
                   reqVars, turnVars>>

otherThanMgr == <<histVars, streamVars, dispVars, lockVars, storVars, mcpVars,
                   reqVars, turnVars>>

otherThanStor == <<histVars, streamVars, dispVars, mgrVars, lockVars, mcpVars,
                   reqVars, turnVars>>

otherThanMcp == <<histVars, streamVars, dispVars, mgrVars, lockVars, storVars,
                   reqVars, turnVars>>

otherThanReq == <<histVars, streamVars, dispVars, mgrVars, lockVars, storVars,
                  mcpVars, turnVars>>

otherThanTurn == <<histVars, streamVars, dispVars, mgrVars, lockVars, storVars,
                   mcpVars>>

vars == <<h, log, capacity, sliced,
          chat, pc, toolCallMap, lastCallID, message, sink, ret,
          inMessage, rText, rCalls, toolcall, idx, mainPc, workerPc,
          workerMsg, wg, chanMsgs, msgs, ctxdone, crashed, handed,
          chats, sessions, dataStorage, now, calls, started, sweepCalls,
          sweepRemoved, returned, turns, impl, db, stored, loaded,
          clis, tools, toolIdx, regs, panicked, sess, issued, nreq, cfg, tpc,
          phaseA, tgo, tinvoked, twg, tmsgs, pending>>

(***************************************************************************)
(* Bounds                                                                  *)
(***************************************************************************)
MaxCap == 3       \* capacities 1..MaxCap are explored
MaxAppend == 5    \* at most MaxAppend messages are appended to one History
MaxMany == 2      \* StoreMany is called with 0..MaxMany messages
ChatCap == 2      \* the maxhistory of the Chat objects of the model
MaxStream == 4    \* a stream carries at most MaxStream fragments + deltas
MaxCalls == 2     \* Phase A returns at most MaxCalls tool calls
LifeTime == 1     \* the configured chatLifeTime, in clock ticks
MaxTurns == 2     \* at most MaxTurns ChatsManager.Chat calls are started
MaxList == 2      \* Storage.Store is called with lists of 0..MaxList messages
MaxTools == 4     \* the catalogue holds at most MaxTools model.Tool values
MaxReqs == 2      \* the Chat of SpecRequest sees at most MaxReqs calls

(***************************************************************************)
(* Messages (model.ChatCompletionMessage): role, content, tool-call id     *)
(***************************************************************************)
RoleUser == "user"
RoleAssistant == "assistant"
RoleTool == "tool"

Msg(r, c, id) == [role |-> r, content |-> c, toolCallID |-> id]

UserMsg(c) == Msg(RoleUser, c, "")

AssistantMsg(c) == Msg(RoleAssistant, c, "")

\* the nil pointer a ring slot holds before it is written
Nil == [role |-> "nil", content |-> "", toolCallID |-> ""]

Min(a, b) == IF a < b THEN a ELSE b

\* the last n elements of s, in order
LastN(s, n) == SubSeq(s, Len(s) - n + 1, Len(s))

\* the sequences over S of length 0..n
SeqsUpTo(S, n) == UNION {[1..k -> S] : k \in 0..n}

(***************************************************************************)
(* History: container/ring of `context` slots; data points at the next     *)
(* slot to write.                                                          *)
(***************************************************************************)
HistoryNew(context) ==
    [slots |-> [i \in 0..(context - 1) |-> Nil], data |-> 0]

\* ring.Len: the number of elements of the ring
RingLen(u) == Cardinality(DOMAIN u.slots)

\* a Len that counts the messages held instead of the slots
Occupancy(u) == Cardinality({i \in DOMAIN u.slots : u.slots[i] # Nil})

\* History.Len: u.data.Len()
HistoryLen(u) == RingLen(u)

\* the first statement of History.Store: u.data.Value = msg
HistoryWrite(u, msg) == [u EXCEPT !.slots[u.data] = msg]

\* the second statement of History.Store: u.data = u.data.Next()
HistoryAdvance(u) == [u EXCEPT !.data = (u.data + 1) % RingLen(u)]

\* History.Store: u.data.Value = msg; u.data = u.data.Next()
HistoryStore(u, msg) == HistoryAdvance(HistoryWrite(u, msg))

\* History.StoreMany: the same two statements for each message in turn
RECURSIVE HistoryStoreMany(_, _)
HistoryStoreMany(u, ms) ==
    IF ms = <<>> THEN u
    ELSE HistoryStoreMany(HistoryStore(u, Head(ms)), Tail(ms))

\* ring.Do: visits the slots in forward order, starting at u.data
RingOrder(u) ==
    [k \in 1..RingLen(u) |-> u.slots[(u.data + k - 1) % RingLen(u)]]

\* a broken Slice that walks the slots from slot 0 instead of from u.data
RingOrderFromZero(u) ==
    [k \in 1..HistoryLen(u) |-> u.slots[k - 1]]

RECURSIVE NonNil(_)
NonNil(s) ==
    IF s = <<>> THEN <<>>
    ELSE IF Head(s) = Nil THEN NonNil(Tail(s))
    ELSE <<Head(s)>> \o NonNil(Tail(s))

SliceFromZero(u) == NonNil(RingOrderFromZero(u))

\* History.Slice: the non-nil slots in ring.Do order
HistorySlice(u) == NonNil(RingOrder(u))

\* History.Clear: ring.Do calls the function once per element, and each
\* time the function assigns u.data.Value = nil, the slot u.data points at;
\* u.data does not move, so that one slot is the only one written
HistoryClear(u) ==
    IF RingLen(u) = 0 THEN u ELSE [u EXCEPT !.slots[u.data] = Nil]

\* a Slice() that moves the write position past the slots it has read
SliceConsuming(u) == [ring |-> HistoryAdvance(u), x |-> HistorySlice(u)]

\* a call of History.Slice: the History it leaves and the slice it returns;
\* the function only reads u.data
SliceCall(u) == [ring |-> u, x |-> HistorySlice(u)]

(***************************************************************************)
(* The value each component's variables keep while another component's     *)
(* specification runs.                                                     *)
(***************************************************************************)
\* the zero time.Time of a Chat that has not finished a turn: further in
\* the past than any lifetime
ZeroTime == 0 - (LifeTime + 1)

\* a lock that lets every caller in
CanLockAlways(c) == TRUE

\* one lock for all the sessions of the registry
CanLockNoneHeld(c) == \A n \in DOMAIN sessions : ~sessions[n].locked

\* what a model call comes to: an error of the model; an error of the write
\* function; a reply with text, with tool calls, or with both. A reply with
\* neither leaves the Chat as an error does.
Outcomes == {"err", "sink", "text", "tools", "text+tools"}

\* the outcomes with which Chat.Chat returns an error
Failures == {"err", "sink"}

\* the reply carries text, which do and doStream store as assistant message
HasText(outcome) == outcome \in {"text", "text+tools"}

\* the reply carries tool calls, which Chat.Chat returns
HasTools(outcome) == outcome \in {"tools", "text+tools"}

\* sync.Mutex.Lock returns only when no other holder has the mutex
CanLock(c) == ~c.locked

\* chat.New: an unlocked Chat with an empty history of maxhistory slots
ChatNew(id, maxhistory) ==
    [id |-> id, history |-> HistoryNew(maxhistory), locked |-> FALSE,
     lastMessage |-> ZeroTime]

\* a tool-call delta of a fragment: id (may be empty), name, argument text
Delta(id, name, args) == [id |-> id, name |-> name, arguments |-> args]

EmptyMap == [x \in {} |-> Delta("", "", "")]

NoReturn == [calls |-> "none", err |-> "none", nilMap |-> FALSE]

LockIdle == turns = <<>>

\* no Load call has just been made
NoLoad == [key |-> "", msgs |-> <<>>, err |-> FALSE]

StorIdle ==
    /\ impl = "memory"
    /\ db = <<>>
    /\ stored = <<>>
    /\ loaded = NoLoad

\* no Chat.Chat call has been made on the Chat of SpecRequest and SpecTurn
ReqIdle ==
    /\ sess = HistoryNew(0)
    /\ issued = <<>>
    /\ nreq = 0

\* no registry turn is running
TurnRestIdle ==
    /\ cfg = [roleSystem |-> <<>>, catalogue |-> <<>>]
    /\ tpc = "off"
    /\ phaseA = [n |-> 0, err |-> FALSE]
    /\ tgo = 0
    /\ tinvoked = 0
    /\ twg = 0
    /\ tmsgs = <<>>
    /\ pending = {}

McpIdle ==
    /\ clis = <<>>
    /\ tools = {}
    /\ toolIdx = [isNil |-> TRUE, m |-> <<>>]
    /\ regs = <<>>
    /\ panicked = FALSE

\* no Slice() call since the last write
NoSlice == [n |-> 0, ring |-> HistoryNew(0), x |-> <<>>]

HistIdle ==
    /\ h = HistoryNew(1)
    /\ log = <<>>
    /\ capacity = 1
    /\ sliced = NoSlice

\* McpClient.idx as mcpcli.New leaves it: a nil map
NilIdx == [x \in {} |-> ""]

DispIdle ==
    /\ toolcall = EmptyMap
    /\ idx = NilIdx
    /\ mainPc = "off"
    /\ workerPc = [x \in {} |-> ""]
    /\ workerMsg = [x \in {} |-> Nil]
    /\ wg = 0
    /\ chanMsgs = <<>>
    /\ msgs = <<>>
    /\ ctxdone = FALSE
    /\ crashed = FALSE
    /\ handed = "none"

\* no ChatsManager.Chat call has just ended
NoCall == [id |-> "", err |-> FALSE, next |-> ""]

MgrIdle ==
    /\ chats = [x \in {} |-> 0]
    /\ sessions = <<>>
    /\ dataStorage = [x \in {} |-> <<>>]
    /\ now = 0
    /\ calls = <<>>
    /\ started = 0
    /\ sweepCalls = <<>>
    /\ sweepRemoved = {}
    /\ returned = NoCall

StreamRestIdle ==
    /\ pc = "off"
    /\ toolCallMap = EmptyMap
    /\ lastCallID = ""
    /\ message = ""
    /\ sink = <<>>
    /\ ret = NoReturn
    /\ inMessage = ""
    /\ rText = <<>>
    /\ rCalls = <<>>

StreamIdle ==
    /\ chat = ChatNew("", 1)
    /\ StreamRestIdle

(***************************************************************************)
(* Chat.Chat in streaming mode and Chat.doStream                           *)
(***************************************************************************)
Deltas ==
    {Delta("", "", "1"), Delta("", "", "2"),
     Delta("a", "f", "1"), Delta("a", "g", "2"),
     Delta("b", "f", "1"), Delta("b", "g", "2")}

\* the Delta.Role and Delta.Content of a fragment's first choice
TextDeltas ==
    {[role |-> RoleAssistant, content |-> "H"],
     [role |-> RoleAssistant, content |-> "i"],
     [role |-> RoleAssistant, content |-> ""],
     [role |-> "", content |-> "z"]}

\* a broken test that forwards text whatever the role of the delta
ForwardsAnyRole(d) == d.content # ""

\* chat.go:267: the delta's text is forwarded and accumulated
ForwardsText(d) == d.role = RoleAssistant /\ d.content # ""

\* a broken opening that lacks the nil test and overwrites a known id
ApplyDeltaOverwrite(st, tc) ==
    IF st.panic THEN st
    ELSE IF tc.id # ""
    THEN [st EXCEPT
            !.map = [x \in DOMAIN st.map \cup {tc.id} |->
                        IF x = tc.id
                        THEN [id |-> tc.id, name |-> tc.name,
                              arguments |-> tc.arguments]
                        ELSE st.map[x]],
            !.last = tc.id]
    ELSE IF st.last \notin DOMAIN st.map
    THEN [st EXCEPT !.panic = TRUE]
    ELSE [st EXCEPT !.map[st.last].arguments = @ \o tc.arguments]

\* chat.go:276-287: one tool-call delta applied to (toolCallMap, lastCallID);
\* toolCallMap[lastCallID] of an id that was never inserted is a nil
\* pointer, and appending to its arguments panics.
ApplyDelta(st, tc) ==
    IF st.panic THEN st
    ELSE IF tc.id # ""
    THEN [st EXCEPT
            !.map = IF tc.id \in DOMAIN st.map THEN st.map
                    ELSE st.map @@
                         (tc.id :> [id |-> tc.id, name |-> tc.name,
                                    arguments |-> tc.arguments]),
            !.last = tc.id]
    ELSE IF st.last \notin DOMAIN st.map
    THEN [st EXCEPT !.panic = TRUE]
    ELSE [st EXCEPT !.map[st.last].arguments = @ \o tc.arguments]

\* chat.go:275: the deltas of one fragment, in order
RECURSIVE ApplyDeltas(_, _)
ApplyDeltas(st, tcs) ==
    IF tcs = <<>> THEN st
    ELSE ApplyDeltas(ApplyDelta(st, Head(tcs)), Tail(tcs))

StreamInit ==
    /\ HistIdle
    /\ StorIdle
    /\ ReqIdle
    /\ TurnRestIdle
    /\ McpIdle
    /\ LockIdle
    /\ DispIdle
    /\ MgrIdle
    /\ chat = ChatNew("c", ChatCap)
    /\ pc = "idle"
    /\ toolCallMap = EmptyMap
    /\ lastCallID = ""
    /\ message = ""
    /\ sink = <<>>
    /\ ret = NoReturn
    /\ inMessage = ""
    /\ rText = <<>>
    /\ rCalls = <<>>

\* what the stream has carried so far, counted against MaxStream
StreamCost == Len(rText) + Len(rCalls)

\* Chat.Chat up to the call of doStream (co.stream) or do: Lock, Store of a
\* non-empty user message
ChatBegin ==
    /\ pc = "idle"
    /\ CanLock(chat)
    /\ \E m \in {"", "hi"} :
        /\ inMessage' = m
        /\ chat' = [chat EXCEPT
                       !.locked = TRUE,
                       !.history = IF m # "" THEN HistoryStore(@, UserMsg(m))
                                   ELSE @]
    /\ \E stream \in BOOLEAN : pc' = IF stream THEN "recv" ELSE "do"
    /\ UNCHANGED <<toolCallMap, lastCallID, message, sink, ret, rText, rCalls>>
    /\ UNCHANGED otherThanStream

\* a deferred function that forgets the Unlock
DeferredStillLocked(c) == [c EXCEPT !.lastMessage = now]

\* the deferred function of Chat.Chat: lastMessage = time.Now(), Unlock
Deferred(c) == [c EXCEPT !.lastMessage = now, !.locked = FALSE]

\* an abort that first stores the text accumulated so far
AbortStoringPartial(c, text) ==
    Deferred([c EXCEPT !.history = IF text # ""
                                   THEN HistoryStore(@, AssistantMsg(text))
                                   ELSE @])

\* "return nil, err" in doStream and do: the Chat after the call, whatever
\* text has been accumulated: nothing runs but the deferred function
Abort(c, text) == Deferred(c)

\* a failure that hands out the map built so far
FailureWithMap(map, e) == [calls |-> map, err |-> e, nilMap |-> FALSE]

\* "return nil, err" in doStream and do: what Chat.Chat returns
Failure(map, e) == [calls |-> "nil", err |-> e, nilMap |-> TRUE]

\* stream.Recv returns a fragment without choices: nothing happens
RecvNoChoices ==
    /\ pc = "recv"
    /\ StreamCost < MaxStream
    /\ rText' = Append(rText, [role |-> "", content |-> ""])
    /\ UNCHANGED <<chat, pc, toolCallMap, lastCallID, message, sink, ret,
                   inMessage, rCalls>>
    /\ UNCHANGED otherThanStream

\* stream.Recv returns a fragment with a choice, the write function (when it
\* is called) succeeds: the text is forwarded and accumulated, the tool-call
\* deltas are applied; an empty-id delta with no current call panics
RecvFragment ==
    /\ pc = "recv"
    /\ StreamCost < MaxStream
    /\ \E d \in TextDeltas :
       \E tcs \in SeqsUpTo(Deltas, MaxStream - StreamCost - 1) :
        /\ rText' = Append(rText, d)
        /\ rCalls' = rCalls \o tcs
        /\ sink' = IF ForwardsText(d) THEN Append(sink, d.content) ELSE sink
        /\ message' = IF ForwardsText(d) THEN message \o d.content ELSE message
        /\ LET st == ApplyDeltas([map |-> toolCallMap, last |-> lastCallID,
                                  panic |-> FALSE], tcs)
           IN /\ toolCallMap' = st.map
              /\ lastCallID' = st.last
              /\ pc' = IF st.panic THEN "panic" ELSE "recv"
              /\ chat' = IF st.panic THEN Deferred(chat) ELSE chat
    /\ UNCHANGED <<ret, inMessage>>
    /\ UNCHANGED otherThanStream

\* stream.Recv returns a fragment whose text is to be forwarded and the
\* write function returns an error: doStream returns (nil, err) at once
RecvSinkError ==
    /\ pc = "recv"
    /\ StreamCost < MaxStream
    /\ \E d \in {t \in TextDeltas : ForwardsText(t)} :
        /\ rText' = Append(rText, d)
        /\ sink' = Append(sink, d.content)
    /\ ret' = Failure(toolCallMap, "sink")
    /\ pc' = "failed"
    /\ chat' = Abort(chat, message)
    /\ UNCHANGED <<toolCallMap, lastCallID, message, inMessage, rCalls>>
    /\ UNCHANGED otherThanStream

\* stream.Recv returns an error other than io.EOF: doStream returns
\* (nil, err); before the first fragment this is also the return of a
\* failed CreateChatCompletionStream (chat.go:250-253)
RecvError ==
    /\ pc = "recv"
    /\ ret' = Failure(toolCallMap, "recv")
    /\ pc' = "failed"
    /\ chat' = Abort(chat, message)
    /\ UNCHANGED <<toolCallMap, lastCallID, message, sink, inMessage, rText, rCalls>>
    /\ UNCHANGED otherThanStream

\* the stream ends (IsFinished is set or Recv returns io.EOF): the assistant
\* message is stored when the accumulated text is non-empty, and the map is
\* returned
StreamEnd ==
    /\ pc = "recv"
    /\ chat' = Deferred([chat EXCEPT
                  !.history = IF message # ""
                              THEN HistoryStore(@, AssistantMsg(message))
                              ELSE @])
    /\ ret' = [calls |-> toolCallMap, err |-> "nil", nilMap |-> FALSE]
    /\ pc' = "done"
    /\ UNCHANGED <<toolCallMap, lastCallID, message, sink, inMessage, rText, rCalls>>
    /\ UNCHANGED otherThanStream

\* the Message.Role and Message.Content of a response's first choice; ptr
\* tells whether Content and Content.StringValue are set
DoTexts ==
    {[role |-> RoleAssistant, content |-> "H", ptr |-> "ok"],
     [role |-> RoleAssistant, content |-> "", ptr |-> "ok"],
     [role |-> RoleAssistant, content |-> "", ptr |-> "nilString"],
     [role |-> RoleAssistant, content |-> "", ptr |-> "nilContent"],
     [role |-> "", content |-> "z", ptr |-> "ok"]}

\* chat.go:317: Role is assistant and Content.StringValue is not nil; the
\* test dereferences Content
DoForwardsText(d) == d.role = RoleAssistant /\ d.ptr = "ok"

\* chat.go:330-342: the tool calls of the response: one entry per non-empty
\* id, the first one kept
RECURSIVE DoToolCalls(_, _)
DoToolCalls(map, tcs) ==
    IF tcs = <<>> THEN map
    ELSE DoToolCalls(
            IF Head(tcs).id # "" /\ Head(tcs).id \notin DOMAIN map
            THEN map @@ (Head(tcs).id :>
                            [id |-> Head(tcs).id, name |-> Head(tcs).name,
                             arguments |-> Head(tcs).arguments])
            ELSE map,
            Tail(tcs))

\* chat.go:311-314: CreateChatCompletion returns an error
DoError ==
    /\ pc = "do"
    /\ ret' = Failure(toolCallMap, "recv")
    /\ pc' = "doFailed"
    /\ chat' = Abort(chat, message)
    /\ UNCHANGED <<toolCallMap, lastCallID, message, sink, inMessage, rText, rCalls>>
    /\ UNCHANGED otherThanStream

\* chat.go:316: the response has no choices: the empty map is returned
DoNoChoices ==
    /\ pc = "do"
    /\ ret' = [calls |-> EmptyMap, err |-> "nil", nilMap |-> FALSE]
    /\ pc' = "doDone"
    /\ chat' = Deferred(chat)
    /\ UNCHANGED <<toolCallMap, lastCallID, message, sink, inMessage, rText, rCalls>>
    /\ UNCHANGED otherThanStream

\* chat.go:317-343: the response has a choice and the write function (when
\* it is called) succeeds: the text is forwarded and stored, the tool calls
\* are collected; an assistant message whose Content is nil panics
DoReply ==
    /\ pc = "do"
    /\ \E d \in DoTexts, tcs \in SeqsUpTo(Deltas, MaxCalls) :
        /\ rText' = <<d>>
        /\ IF d.role = RoleAssistant /\ d.ptr = "nilContent"
           THEN /\ pc' = "doPanic"
                /\ chat' = Deferred(chat)
                /\ UNCHANGED <<sink, toolCallMap, ret, rCalls>>
           ELSE /\ pc' = "doDone"
                /\ sink' = IF DoForwardsText(d) THEN Append(sink, d.content)
                           ELSE sink
                /\ chat' = Deferred([chat EXCEPT
                               !.history = IF DoForwardsText(d)
                                           THEN HistoryStore(@, AssistantMsg(d.content))
                                           ELSE @])
                /\ rCalls' = tcs
                /\ toolCallMap' = DoToolCalls(EmptyMap, tcs)
                /\ ret' = [calls |-> toolCallMap', err |-> "nil",
                           nilMap |-> FALSE]
    /\ UNCHANGED <<lastCallID, message, inMessage>>
    /\ UNCHANGED otherThanStream

\* chat.go:318-321: the write function returns an error: do returns
\* (nil, err) before the Store
DoSinkError ==
    /\ pc = "do"
    /\ \E d \in {t \in DoTexts : DoForwardsText(t)} :
        /\ rText' = <<d>>
        /\ sink' = Append(sink, d.content)
    /\ ret' = Failure(toolCallMap, "sink")
    /\ pc' = "doFailed"
    /\ chat' = Abort(chat, message)
    /\ UNCHANGED <<toolCallMap, lastCallID, message, inMessage, rCalls>>
    /\ UNCHANGED otherThanStream

StreamNext ==
    \/ ChatBegin
    \/ RecvNoChoices
    \/ RecvFragment
    \/ RecvSinkError
    \/ RecvError
    \/ StreamEnd
    \/ DoError
    \/ DoNoChoices
    \/ DoReply
    \/ DoSinkError

SpecStream == StreamInit /\ [][StreamNext]_vars

Max(S) == CHOOSE x \in S : \A y \in S : y <= x

\* the position of the first delta of s that carries id
FirstPos(s, id) ==
    CHOOSE i \in 1..Len(s) : s[i].id = id /\ \A j \in 1..(i - 1) : s[j].id # id

\* the id most recently seen before position j of s ("" when there is none)
CurrentAt(s, j) ==
    LET P == {i \in 1..(j - 1) : s[i].id # ""}
    IN IF P = {} THEN "" ELSE s[Max(P)].id

\* the arguments of the empty-id deltas of s, from position j on, that
\* arrived while id was the most recently seen id, in arrival order
RECURSIVE ContinuedArgs(_, _, _)
ContinuedArgs(s, id, j) ==
    IF j > Len(s) THEN ""
    ELSE (IF s[j].id = "" /\ CurrentAt(s, j) = id THEN s[j].arguments ELSE "")
         \o ContinuedArgs(s, id, j + 1)

\* C8: when a stream whose tool calls are each opened by a delta with a
\* non-empty id and continued by empty-id deltas has ended, doStream returns
\* a map with exactly one entry per distinct id; the entry's name is the
\* opening delta's name and its arguments are the opening delta's arguments
\* followed by the arguments of every empty-id delta that arrived while that
\* id was the most recently seen one, in arrival order.
C8_ToolCallsReconstructed ==
    pc = "done" =>
        /\ DOMAIN ret.calls = {rCalls[i].id : i \in 1..Len(rCalls)} \ {""}
        /\ \A id \in DOMAIN ret.calls :
            /\ ret.calls[id].id = id
            /\ ret.calls[id].name = rCalls[FirstPos(rCalls, id)].name
            /\ ret.calls[id].arguments =
                   rCalls[FirstPos(rCalls, id)].arguments
                   \o ContinuedArgs(rCalls, id, 1)

\* C8 witness: a stream with two calls has ended, and call "a" was opened
\* with "1" and continued with "2".
C8_Witness ==
    /\ pc = "done"
    /\ DOMAIN ret.calls = {"a", "b"}
    /\ ret.calls["a"].arguments = "12"

\* the arguments of every delta of s, from position j on, that targets id:
\* the deltas that carry id and the empty-id deltas that arrived while id
\* was the most recently seen id, in arrival order
RECURSIVE TargetedArgs(_, _, _)
TargetedArgs(s, id, j) ==
    IF j > Len(s) THEN ""
    ELSE (IF s[j].id = id \/ (s[j].id = "" /\ CurrentAt(s, j) = id)
          THEN s[j].arguments ELSE "")
         \o TargetedArgs(s, id, j + 1)

\* C28: when a stream has ended, the tool call returned for an id has as
\* arguments the argument fragments of all deltas that carry that id and of
\* the empty-id deltas continuing them, concatenated in arrival order: no
\* fragment is discarded.
C28_AllFragmentsConcatenated ==
    pc = "done" =>
        \A id \in DOMAIN ret.calls :
            ret.calls[id].arguments = TargetedArgs(rCalls, id, 1)

\* What doStream does with a delta that repeats a non-empty id: it keeps
\* the entry as it is, so the arguments are those of the first delta with
\* the id and of the empty-id deltas only.
RepeatedIdDeltaDiscarded ==
    pc = "done" =>
        \A id \in DOMAIN ret.calls :
            ret.calls[id].arguments =
                rCalls[FirstPos(rCalls, id)].arguments
                \o ContinuedArgs(rCalls, id, 1)

\* a stream carried id "a" twice, with the arguments "1" and then "2", and
\* the call returned for "a" has the arguments "1"
SecondFragmentLost ==
    /\ pc = "done"
    /\ rCalls = <<Delta("a", "f", "1"), Delta("a", "g", "2")>>
    /\ ret.calls["a"].arguments = "1"

RECURSIVE ConcatContents(_)
ConcatContents(s) ==
    IF s = <<>> THEN "" ELSE Head(s).content \o ConcatContents(Tail(s))

IsAssistantText(d) == d.role = RoleAssistant /\ d.content # ""

\* the non-empty assistant text deltas received, in arrival order
AssistantTexts == SelectSeq(rText, IsAssistantText)

\* the messages the call is to leave in the (initially empty) history
ExpectedStored ==
    (IF inMessage # "" THEN <<UserMsg(inMessage)>> ELSE <<>>)
    \o (IF ConcatContents(AssistantTexts) # ""
        THEN <<AssistantMsg(ConcatContents(AssistantTexts))>> ELSE <<>>)

\* C9: when a stream has ended gracefully, the write function has been
\* called exactly once for every non-empty assistant text delta, in arrival
\* order and with its bytes; the history holds one new assistant message,
\* the concatenation of those deltas, when that is non-empty, and no new
\* assistant message when it is empty.
C9_TextForwardedAndStored ==
    pc = "done" =>
        /\ sink = [i \in 1..Len(AssistantTexts) |-> AssistantTexts[i].content]
        /\ HistorySlice(chat.history) =
               LastN(ExpectedStored, Min(Len(ExpectedStored), ChatCap))

\* C9 witness: the deltas "H" and "i" were forwarded in that order and the
\* stream ended with the assistant message "Hi" stored after the user's.
C9_Witness ==
    /\ pc = "done"
    /\ sink = <<"H", "i">>
    /\ ChatCap >= 2
    /\ HistorySlice(chat.history)[Len(HistorySlice(chat.history))] = AssistantMsg("Hi")
    /\ inMessage = "hi"

\* what the call's own Store of the user message leaves in the (initially
\* empty) history
UserOnly == IF inMessage # "" THEN <<UserMsg(inMessage)>> ELSE <<>>

\* chat.go:255-300: doStream on a stream of one fragment with the text
\* delta d and the tool-call deltas tcs: the write-function calls, the
\* assistant messages stored and the map returned
OneFragmentStream(d, tcs) ==
    LET st == ApplyDeltas([map |-> EmptyMap, last |-> "", panic |-> FALSE], tcs)
        text == IF ForwardsText(d) THEN d.content ELSE ""
    IN [sink |-> IF ForwardsText(d) THEN <<d.content>> ELSE <<>>,
        stored |-> IF text # "" THEN <<AssistantMsg(text)>> ELSE <<>>,
        calls |-> st.map,
        panic |-> st.panic]

\* the messages a call leaves in the (initially empty) history when the
\* reply stored the messages ms
StoredWith(ms) ==
    LastN(UserOnly \o ms, Min(Len(UserOnly \o ms), ChatCap))

\* every tool call of the reply carries its id
FullyFormed(tcs) == \A i \in 1..Len(tcs) : tcs[i].id # ""

\* A stream that ended after one fragment did what OneFragmentStream
\* computes.
OneFragmentStreamIsDoStream ==
    (pc = "done" /\ Len(rText) = 1) =>
        LET r == OneFragmentStream(rText[1], rCalls)
        IN /\ sink = r.sink
           /\ HistorySlice(chat.history) = StoredWith(r.stored)
           /\ ret.calls = r.calls

\* C29: a non-streaming reply with a text (the empty string included) and
\* fully-formed tool calls makes Chat.do write to the sink, append to the
\* history and return the map exactly as doStream does on one fragment with
\* the same text and tool calls.
C29_DoEqualsOneFragmentStream ==
    (pc = "doDone" /\ Len(rText) = 1 /\ rText[1].ptr = "ok" /\ FullyFormed(rCalls)) =>
        LET r == OneFragmentStream(rText[1], rCalls)
        IN /\ sink = r.sink
           /\ HistorySlice(chat.history) = StoredWith(r.stored)
           /\ ret.calls = r.calls

\* Chat.do agrees with the one-fragment stream on the map always, and on
\* the sink and the history unless the reply is an assistant message whose
\* text is the empty string.
DoDiffersOnEmptyTextOnly ==
    (pc = "doDone" /\ Len(rText) = 1 /\ FullyFormed(rCalls)) =>
        LET r == OneFragmentStream(rText[1], rCalls)
        IN /\ ret.calls = r.calls
           /\ ~(rText[1].role = RoleAssistant /\ rText[1].ptr = "ok"
                     /\ rText[1].content = "")
                => /\ sink = r.sink
                   /\ HistorySlice(chat.history) = StoredWith(r.stored)

\* Chat.do got an assistant reply with the empty string as text: it called
\* the write function with no bytes and stored an assistant message without
\* text
EmptyReplyWrittenAndStored ==
    /\ pc = "doDone"
    /\ rText = <<[role |-> RoleAssistant, content |-> "", ptr |-> "ok"]>>
    /\ sink = <<"">>
    /\ HistorySlice(chat.history)[Len(HistorySlice(chat.history))] = AssistantMsg("")

\* Chat.Chat has returned a nil map
NoMapReturned == ret.nilMap

\* Chat.Chat has returned an error
CallFailed == pc \in {"failed", "doFailed"}

\* C14: when the stream (after any number of fragments) or the
\* non-streaming call returns an error, Chat.Chat returns that error with no
\* map, and the history holds no assistant message of that call.
C14_ModelErrorCommitsNothing ==
    (CallFailed /\ ret.err = "recv") =>
        /\ NoMapReturned
        /\ HistorySlice(chat.history) = UserOnly

\* the stream failed after text had been forwarded and accumulated and a
\* tool call had been opened
C14_Witness ==
    /\ pc = "failed"
    /\ ret.err = "recv"
    /\ sink # <<>>
    /\ message # ""
    /\ toolCallMap # EmptyMap

\* the text fragments the write function is to have been called with, the
\* failing call included
SinkCalls ==
    IF pc = "doFailed" THEN <<rText[1].content>>
    ELSE [i \in 1..Len(AssistantTexts) |-> AssistantTexts[i].content]

\* C15: when the write function fails on the k-th forwarded fragment,
\* Chat.Chat returns its error with no map, no assistant message is stored,
\* and the write function has been called for the first k fragments, once
\* each and in order, and for nothing after.
C15_SinkErrorAborts ==
    (CallFailed /\ ret.err = "sink") =>
        /\ NoMapReturned
        /\ HistorySlice(chat.history) = UserOnly
        /\ sink = SinkCalls
        /\ Len(sink) >= 1

\* the write function failed on the second fragment, after one delivered
\* fragment and an opened tool call
C15_Witness ==
    /\ pc = "failed"
    /\ ret.err = "sink"
    /\ Len(sink) = 2
    /\ message = sink[1]
    /\ toolCallMap # EmptyMap

\* Every return path of Chat.Chat, a panic included, runs the deferred
\* function: the lock is free once the call is over.
ReturnedUnlocked ==
    pc \in {"done", "failed", "panic", "doDone", "doFailed", "doPanic"}
        => ~chat.locked

(***************************************************************************)
(* The tool dispatch of ChatsManager.Chat and McpClient.Call               *)
(***************************************************************************)
ToolCall(id, name, args) == [id |-> id, name |-> name, arguments |-> args]

\* the call ids of the model, in the order they are handed out
CallIdOf == <<"t1", "t2", "t3", "t4">>

\* tool "f" is the one a populated routing table knows
ToolNames == {"f", "nope"}

\* argument texts: a JSON object, and a text that is not JSON
ArgTexts == {"{}", "x"}

\* json.UnmarshalFromString(tc.Function.Arguments, &arg) succeeds
ArgsParse(a) == a = "{}"

\* every map Phase A can return with 1..MaxCalls calls
ToolCallMaps ==
    UNION {{[id \in DOMAIN f |-> ToolCall(id, f[id].name, f[id].arguments)] :
              f \in [{CallIdOf[i] : i \in 1..n} ->
                         [name : ToolNames, arguments : ArgTexts]]}
           : n \in 1..MaxCalls}

\* the routing tables explored: the nil map mcpcli.New leaves (loadTools,
\* its only writer, dereferences a nil *mclient before it writes), and the
\* table a fixture that routes tool "f" would install
IdxTables == {NilIdx, [x \in {"f"} |-> "srv"]}

\* mcpcli.go:94-112: McpClient.Call. execOK is what CallTool does when it is
\* reached. m.clis[m.idx[name]] of an unrouted name is a nil *mclient, and
\* reading its cli field panics.
McpCall(tc, execOK) ==
    IF ~ArgsParse(tc.arguments) THEN [kind |-> "err", msg |-> Nil]
    ELSE IF tc.name \notin DOMAIN idx THEN [kind |-> "panic", msg |-> Nil]
    ELSE IF ~execOK THEN [kind |-> "err", msg |-> Nil]
    ELSE [kind |-> "msg", msg |-> Msg(RoleTool, "result", tc.id)]

\* chats_manager.go:213: the message that tells the collector to stop
ShutMeDown == Msg("shut me down", "", "")

\* chats_manager.go:189 and 203: wg.Add(l), then wg.Go once per call;
\* WaitGroup.Go itself adds 1 before it starts the goroutine and calls Done
\* when the function returns
WgAfterLaunch(l) == l + l

\* chats_manager.go:191: make(chan *model.ChatCompletionMessage, l)
ChanCap == Cardinality(DOMAIN toolcall)

DispInit ==
    /\ HistIdle
    /\ StorIdle
    /\ ReqIdle
    /\ TurnRestIdle
    /\ McpIdle
    /\ LockIdle
    /\ StreamIdle
    /\ MgrIdle
    /\ toolcall \in ToolCallMaps
    /\ idx \in IdxTables
    /\ mainPc = "start"
    /\ workerPc = [x \in {} |-> ""]
    /\ workerMsg = [x \in {} |-> Nil]
    /\ wg = 0
    /\ chanMsgs = <<>>
    /\ msgs = <<>>
    /\ ctxdone = FALSE
    /\ crashed = FALSE
    /\ handed = "none"

\* chats_manager.go:187-229, the goroutine of ChatsManager.Chat:
\*   start    -> wg.Add(l), the channel, the collector and the l workers
\*   wait     -> wg.Wait() returns once the counter is 0
\*   sentinel -> chanMsgs <- "shut me down" (blocks while the buffer is full)
\*   ctxwait  -> <-ctxdone.Done(), close(chanMsgs), then Phase B when
\*               len(msgs) > 0
DispatchMain ==
    /\ ~crashed
    /\ IF mainPc = "start"
       THEN /\ wg' = WgAfterLaunch(Cardinality(DOMAIN toolcall))
            /\ workerPc' = [id \in DOMAIN toolcall |-> "call"]
            /\ workerMsg' = [id \in DOMAIN toolcall |-> Nil]
            /\ mainPc' = "wait"
            /\ UNCHANGED <<chanMsgs, handed>>
       ELSE IF mainPc = "wait"
       THEN /\ wg = 0
            /\ mainPc' = "sentinel"
            /\ UNCHANGED <<wg, workerPc, workerMsg, chanMsgs, handed>>
       ELSE IF mainPc = "sentinel"
       THEN /\ Len(chanMsgs) < ChanCap
            /\ chanMsgs' = Append(chanMsgs, ShutMeDown)
            /\ mainPc' = "ctxwait"
            /\ UNCHANGED <<wg, workerPc, workerMsg, handed>>
       ELSE /\ mainPc = "ctxwait"
            /\ ctxdone
            /\ handed' = IF Len(msgs) > 0 THEN msgs ELSE handed
            /\ mainPc' = IF Len(msgs) > 0 THEN "phaseB" ELSE "return"
            /\ UNCHANGED <<wg, workerPc, workerMsg, chanMsgs>>
    /\ UNCHANGED <<toolcall, idx, msgs, ctxdone, crashed>>
    /\ UNCHANGED otherThanDisp

\* chats_manager.go:204-208: a worker's McpClient.Call returns or panics; on
\* an error the worker logs and returns, and WaitGroup.Go calls Done
WorkerCall(id) ==
    /\ ~crashed
    /\ workerPc[id] = "call"
    /\ \E execOK \in BOOLEAN :
        LET r == McpCall(toolcall[id], execOK)
        IN IF r.kind = "panic"
           THEN /\ crashed' = TRUE
                /\ UNCHANGED <<workerPc, workerMsg, wg>>
           ELSE IF r.kind = "err"
           THEN /\ workerPc' = [workerPc EXCEPT ![id] = "done"]
                /\ wg' = wg - 1
                /\ UNCHANGED <<workerMsg, crashed>>
           ELSE /\ workerPc' = [workerPc EXCEPT ![id] = "send"]
                /\ workerMsg' = [workerMsg EXCEPT ![id] = r.msg]
                /\ UNCHANGED <<wg, crashed>>
    /\ UNCHANGED <<toolcall, idx, mainPc, chanMsgs, msgs, ctxdone, handed>>
    /\ UNCHANGED otherThanDisp

\* chats_manager.go:209: chanMsgs <- msg, then the worker returns and
\* WaitGroup.Go calls Done
WorkerSend(id) ==
    /\ ~crashed
    /\ workerPc[id] = "send"
    /\ Len(chanMsgs) < ChanCap
    /\ chanMsgs' = Append(chanMsgs, workerMsg[id])
    /\ workerPc' = [workerPc EXCEPT ![id] = "done"]
    /\ wg' = wg - 1
    /\ UNCHANGED <<toolcall, idx, mainPc, workerMsg, msgs, ctxdone, crashed, handed>>
    /\ UNCHANGED otherThanDisp

\* chats_manager.go:193-201: the collector receives one message; the
\* sentinel makes it call cancel() and return, any other message is appended
Collect ==
    /\ ~crashed
    /\ mainPc # "start"
    /\ ~ctxdone
    /\ chanMsgs # <<>>
    /\ chanMsgs' = Tail(chanMsgs)
    /\ IF Head(chanMsgs).role = ShutMeDown.role
       THEN ctxdone' = TRUE /\ UNCHANGED msgs
       ELSE msgs' = Append(msgs, Head(chanMsgs)) /\ UNCHANGED ctxdone
    /\ UNCHANGED <<toolcall, idx, mainPc, workerPc, workerMsg, wg, crashed, handed>>
    /\ UNCHANGED otherThanDisp

DispNext ==
    \/ DispatchMain
    \/ \E id \in DOMAIN workerPc : WorkerCall(id)
    \/ \E id \in DOMAIN workerPc : WorkerSend(id)
    \/ Collect

SpecDispatch == DispInit /\ [][DispNext]_vars

\* the dispatch is over: ChatsManager.Chat is past wg.Wait, the sentinel and
\* the close of the channel
PastDispatch == mainPc \in {"phaseB", "return"}

\* the calls whose McpClient.Call returned a message
Succeeded == {id \in DOMAIN workerMsg : workerMsg[id] # Nil}

\* C2: for N >= 1 tool calls each of whose McpClient.Call returns, the
\* dispatcher's wait on the N calls completes and ChatsManager.Chat gets past
\* the dispatch: the dispatch never comes to rest before that. Stated for
\* the McpClient as mcpcli.New builds it.
C2_DispatchTerminates ==
    (idx = NilIdx /\ mainPc # "off" /\ ~crashed /\ ~ENABLED DispNext)
        => PastDispatch

\* C3: when the dispatch has come to rest, it has returned, and the list it
\* aggregated holds exactly one tool-result message, carrying the call's id,
\* for each call that succeeded and no other message. Stated for the
\* McpClient as mcpcli.New builds it.
C3_AggregatedListIsExact ==
    (idx = NilIdx /\ mainPc # "off" /\ ~crashed /\ ~ENABLED DispNext)
        => /\ PastDispatch
           /\ Len(msgs) = Cardinality(Succeeded)
           /\ \A id \in Succeeded :
                \E i \in 1..Len(msgs) : msgs[i] = Msg(RoleTool, "result", id)

\* Whenever every worker has returned and the channel is drained, msgs holds
\* exactly the messages of the calls that succeeded (the collector loses
\* and duplicates nothing), whether or not the dispatch ever returns.
CollectorHasEverySuccess ==
    (mainPc # "start" /\ mainPc # "off" /\ chanMsgs = <<>>
     /\ \A id \in DOMAIN workerPc : workerPc[id] = "done")
        => /\ Len(msgs) = Cardinality(Succeeded)
           /\ \A id \in Succeeded :
                \E i \in 1..Len(msgs) : msgs[i] = Msg(RoleTool, "result", id)

\* the calls whose function name the routing index does not hold
Unrouted == {id \in DOMAIN toolcall : toolcall[id].name \notin DOMAIN idx}

\* C17: a tool call that is not routed, or whose execution fails, is local to
\* that call: it never stops the process or its sibling calls, and once the
\* dispatch has come to rest it has returned to ChatsManager.Chat with
\* exactly the messages of the calls that succeeded, none for a failed call.
C17_ToolFailureIsLocal ==
    /\ ~crashed
    /\ (mainPc # "off" /\ ~ENABLED DispNext)
          => /\ PastDispatch
             /\ Len(msgs) = Cardinality(Succeeded)
             /\ \A id \in Succeeded :
                  \E i \in 1..Len(msgs) : msgs[i] = Msg(RoleTool, "result", id)

\* Short of a crash, a failed call leaves no message and takes none of its
\* siblings' away: with every worker returned and the channel drained, msgs
\* holds a message of a call exactly when that call succeeded.
FailedCallLeavesNoMessage ==
    (~crashed /\ mainPc \notin {"start", "off"} /\ chanMsgs = <<>>
     /\ \A id \in DOMAIN workerPc : workerPc[id] = "done")
        => \A id \in DOMAIN toolcall :
              (id \in Succeeded) <=>
                 (\E i \in 1..Len(msgs) : msgs[i].toolCallID = id)

\* The process stops only in McpClient.Call of an unrouted call whose
\* arguments parse; it can stop after siblings have returned.
CrashOnlyByUnrouted ==
    crashed => \E id \in Unrouted :
                  workerPc[id] = "call" /\ ArgsParse(toolcall[id].arguments)

\* an unrouted call has stopped the process after a sibling produced its
\* message, which is never handed on
UnroutedCallCrashed ==
    /\ crashed
    /\ \E b \in DOMAIN workerPc : workerMsg[b] # Nil
    /\ handed = "none"

\* a routed call has delivered its message while a sibling failed
SiblingDelivered ==
    /\ ~crashed
    /\ \E a, b \in DOMAIN workerPc :
          /\ workerPc[a] = "done" /\ workerMsg[a] = Nil
          /\ workerPc[b] = "done" /\ workerMsg[b] # Nil
          /\ \E i \in 1..Len(msgs) : msgs[i] = workerMsg[b]

\* the calls of the batch whose argument text is not a JSON object
Unparsable == {id \in DOMAIN toolcall : ~ArgsParse(toolcall[id].arguments)}

\* a message of call id is in the channel or in the aggregated list
HasMessage(id) ==
    \/ \E i \in 1..Len(chanMsgs) : chanMsgs[i].toolCallID = id
    \/ \E i \in 1..Len(msgs) : msgs[i].toolCallID = id

\* C35: a tool call whose arguments do not parse never reaches the tool
\* execution and yields no message, and the batch it is in goes on: the
\* process keeps running, and once every worker has returned and the
\* channel is drained each sibling has been invoked and the aggregated list
\* holds the message of every sibling that succeeded. Stated for the
\* McpClient as mcpcli.New builds it.
C35_UnparsableCallDropped ==
    (idx = NilIdx /\ Unparsable # {} /\ mainPc \notin {"start", "off"}) =>
        /\ \A x \in Unparsable :
              /\ \A execOK \in BOOLEAN : McpCall(toolcall[x], execOK).kind = "err"
              /\ workerMsg[x] = Nil
              /\ ~HasMessage(x)
        /\ ~crashed
        /\ (chanMsgs = <<>> /\ \A id \in DOMAIN workerPc : workerPc[id] = "done")
              => \A y \in DOMAIN toolcall :
                    (y \in Succeeded) <=> (\E i \in 1..Len(msgs) : msgs[i].toolCallID = y)

\* What holds for the call itself, whatever the routing table: McpClient.Call
\* returns the parse error before it looks at the routing table or calls
\* CallTool, the call yields no message, and it is never the call that
\* stops the process.
UnparsableCallIsLocal ==
    mainPc \notin {"start", "off"} =>
        /\ \A x \in Unparsable :
              /\ \A execOK \in BOOLEAN : McpCall(toolcall[x], execOK).kind = "err"
              /\ workerMsg[x] = Nil
              /\ ~HasMessage(x)
        /\ crashed => \E y \in DOMAIN toolcall \ Unparsable : workerPc[y] = "call"

\* a call with unparsable arguments has been dropped, and its sibling,
\* whose arguments parse, has stopped the process in McpClient.Call
SiblingOfUnparsableCrashed ==
    /\ idx = NilIdx
    /\ crashed
    /\ \E x \in Unparsable : workerPc[x] = "done"
    /\ \E y \in DOMAIN toolcall \ Unparsable : workerPc[y] = "call"

(***************************************************************************)
(* The registry: ChatsManager.Chat, the sweep, and MemoryStorage           *)
(***************************************************************************)
\* the caller-supplied session ids
Ids == {"a", "b"}

\* the message texts a caller passes
UserTexts == {"hi"}

\* crypto.GetSHA1: a one-way digest, never the id itself
GetSHA1(id) == "sha1(" \o id \o ")"

\* memory.go:74-81: MemoryStorage.Load, an empty list for an unknown key
StorageLoad(st, key) == IF key \in DOMAIN st THEN st[key] ELSE <<>>

\* memory.go:55-63: MemoryStorage.Store replaces the list of the key
StorageStore(st, key, ms) ==
    [k \in DOMAIN st \cup {key} |-> IF k = key THEN ms ELSE st[k]]

\* a broken restore that stops when the ring is full and keeps the oldest
SetHistoryKeepOldest(c, hs) ==
    [c EXCEPT !.history =
        HistoryStoreMany(@, SubSeq(hs, 1, Min(Len(hs), HistoryLen(c.history))))]

\* chat.go:165-167: Chat.SetHistory is History.StoreMany
SetHistory(c, hs) == [c EXCEPT !.history = HistoryStoreMany(@, hs)]

\* Chat.History
ChatHistory(c) == HistorySlice(c.history)

\* a sweep that takes every session for expired
ExpiredWhatever(c) == TRUE

\* chats_manager.go:72: time.Since(value.LastMessage()) > cm.cnf.chatLifeTime
Expired(c) == now - c.lastMessage > LifeTime

\* the clock stops here
MaxTime == LifeTime + 1

\* what a durable storage may already hold when the manager starts: nothing,
\* or under the key of id "a" a list shorter or longer than the capacity
OldTexts == <<"o1", "o2", "o3", "o4", "o5", "o6">>

OldList(n) ==
    [i \in 1..n |-> IF i % 2 = 1 THEN UserMsg(OldTexts[i])
                    ELSE AssistantMsg(OldTexts[i])]

InitialStorages ==
    {[x \in {} |-> <<>>]}
    \cup {[k \in {GetSHA1("a")} |-> OldList(n)] : n \in {ChatCap - 1, ChatCap + 1}}

MgrInit ==
    /\ HistIdle
    /\ StorIdle
    /\ ReqIdle
    /\ TurnRestIdle
    /\ McpIdle
    /\ LockIdle
    /\ StreamIdle
    /\ DispIdle
    /\ chats = [x \in {} |-> 0]
    /\ sessions = <<>>
    /\ dataStorage \in InitialStorages
    /\ now = 0
    /\ calls = <<>>
    /\ started = 0
    /\ sweepCalls = <<>>
    /\ sweepRemoved = {}
    /\ returned = NoCall

\* the place of a Chat that nothing refers to any more: the Go runtime has
\* collected it
Freed == [id |-> "", history |-> HistoryNew(0), locked |-> FALSE,
          lastMessage |-> ZeroTime]

\* the heap after garbage collection: a Chat stays while the registry or a
\* running call refers to it
Collected(heap, registry, cs) ==
    [n \in DOMAIN heap |->
        IF \/ \E k \in DOMAIN registry : registry[k] = n
           \/ \E i \in DOMAIN cs : cs[i].ch = n
        THEN heap[n] ELSE Freed]

\* where the next Chat is allocated
NewRef(heap) ==
    IF \E n \in DOMAIN heap : heap[n] = Freed
    THEN CHOOSE n \in DOMAIN heap :
             heap[n] = Freed /\ \A m \in DOMAIN heap : heap[m] = Freed => n <= m
    ELSE Len(heap) + 1

\* the heap with Chat c at reference n
Allocated(heap, n, c) ==
    IF n \in DOMAIN heap THEN [heap EXCEPT ![n] = c] ELSE Append(heap, c)

\* the Store calls and deletions of a step that is not a sweep tick: none
NoSweep == sweepCalls' = <<>> /\ sweepRemoved' = {}

\* the step is not the end of a ChatsManager.Chat call
NoEnd == returned' = NoCall

\* a Load that fails and hands out the stored list all the same
LoadOrFailWithList(st, key, fails) ==
    [msgs |-> StorageLoad(st, key), err |-> fails]

\* Storage.Load of a storage that can fail: RedisStorage.Load
\* (history.go:199-212) returns (nil, err) when HGet or the decoding fails,
\* the list otherwise
LoadOrFail(st, key, fails) ==
    IF fails THEN [msgs |-> <<>>, err |-> TRUE]
    ELSE [msgs |-> StorageLoad(st, key), err |-> FALSE]

\* chats_manager.go:157-175: LoadForUpdate(keyid); when that finds nothing,
\* chat.New(keyid, ...), Load(keyid), whose error is logged, SetHistory when
\* the list is not empty, and chats.Store(id, ch). loadFails tells whether
\* the Load returns an error.
MgrChatBeginWith(loadFails) ==
    \E id \in Ids, m \in UserTexts :
        /\ started < MaxTurns
        /\ started' = started + 1
        /\ NoSweep
        /\ NoEnd
        /\ UNCHANGED <<dataStorage, now>>
        /\ UNCHANGED otherThanMgr
        /\ LET keyid == GetSHA1(id)
               found == keyid \in DOMAIN chats
               load == LoadOrFail(dataStorage, keyid, loadFails)
               his == load.msgs
               fresh == ChatNew(keyid, ChatCap)
               ch == IF Len(his) > 0 THEN SetHistory(fresh, his) ELSE fresh
               n == NewRef(sessions)
           IN
           /\ chats' = IF found THEN chats
                       ELSE [k \in DOMAIN chats \cup {id} |->
                                IF k = id THEN n ELSE chats[k]]
           /\ calls' = Append(calls,
                  [id |-> id, message |-> m, pc |-> "phaseA",
                   ch |-> IF found THEN chats[keyid] ELSE n,
                   err |-> FALSE, tools |-> FALSE,
                   loadErr |-> ~found /\ load.err])
           /\ sessions' = IF found THEN sessions
                          ELSE Collected(Allocated(sessions, n, ch), chats', calls')

\* ChatsManager.Chat on the default MemoryStorage, whose Load returns no
\* error (memory.go:74-81)
MgrChatBegin == MgrChatBeginWith(FALSE)

\* the session of call i after f has been applied to it
WithSession(i, f(_)) ==
    [sessions EXCEPT ![calls[i].ch] = f(sessions[calls[i].ch])]

\* chats_manager.go:177 and chat.go:191-203: ch.Chat takes the lock and, for
\* a non-empty message, History.Store starts: the slot is written. The sweep
\* reads History() and LastMessage() without the lock, so it can run between
\* any two statements of a turn.
MgrLock(i) ==
    /\ calls[i].pc = "phaseA"
    /\ CanLock(sessions[calls[i].ch])
    /\ LET Locked(c) ==
               [c EXCEPT !.locked = TRUE,
                         !.history = IF calls[i].message # ""
                                     THEN HistoryWrite(@, UserMsg(calls[i].message))
                                     ELSE @]
       IN sessions' = WithSession(i, Locked)
    /\ calls' = [calls EXCEPT ![i].pc =
                    IF calls[i].message # "" THEN "userWritten" ELSE "model"]
    /\ NoSweep
    /\ NoEnd
    /\ UNCHANGED <<chats, dataStorage, now, started>>
    /\ UNCHANGED otherThanMgr

\* history.go: History.Store ends: the ring advances past the written slot
MgrAdvance(i) ==
    /\ calls[i].pc \in {"userWritten", "replyWritten"}
    /\ LET Advanced(c) == [c EXCEPT !.history = HistoryAdvance(@)]
       IN sessions' = WithSession(i, Advanced)
    /\ calls' = [calls EXCEPT ![i].pc =
                    IF calls[i].pc = "userWritten" THEN "model" ELSE "unlock"]
    /\ NoSweep
    /\ NoEnd
    /\ UNCHANGED <<chats, dataStorage, now, started>>
    /\ UNCHANGED otherThanMgr

\* chat.go:204-231: the model call: it fails, answers with text (the Store
\* of the assistant message starts), or asks for tools
MgrModel(i) ==
    /\ calls[i].pc = "model"
    /\ \E outcome \in Outcomes :
        LET Answered(c) ==
                [c EXCEPT !.history = IF HasText(outcome)
                                      THEN HistoryWrite(@, AssistantMsg("re"))
                                      ELSE @]
        IN /\ sessions' = WithSession(i, Answered)
           /\ calls' = [calls EXCEPT
                           ![i].pc = IF HasText(outcome)
                                     THEN "replyWritten" ELSE "unlock",
                           ![i].err = outcome \in Failures,
                           ![i].tools = HasTools(outcome)]
    /\ NoSweep
    /\ NoEnd
    /\ UNCHANGED <<chats, dataStorage, now, started>>
    /\ UNCHANGED otherThanMgr

\* chats_manager.go:182-187: what ChatsManager.Chat does with the
\* (toolcall, err) of Phase A: an error is logged and the call returns; a
\* non-empty map starts the dispatch; anything else returns
AfterPhaseAPropagating(err, hasCalls) ==
    IF err THEN "panic" ELSE IF hasCalls THEN "dispatch" ELSE "return"

\* a turn that starts the dispatch whenever Phase A returned no error
AfterPhaseADispatching(err, hasCalls) == IF err THEN "return" ELSE "dispatch"

AfterPhaseA(err, hasCalls) ==
    IF err THEN "return" ELSE IF hasCalls THEN "dispatch" ELSE "return"

\* sequence s without its i-th element
Without(s, i) == SubSeq(s, 1, i - 1) \o SubSeq(s, i + 1, Len(s))

\* chat.go:187-190 and chats_manager.go:182-187: the deferred function of
\* ch.Chat runs (lastMessage = time.Now(), Unlock) and Phase A is over:
\* ChatsManager.Chat returns, or with tool calls it enters the dispatch,
\* which SpecDispatch follows
MgrUnlock(i) ==
    /\ calls[i].pc = "unlock"
    /\ calls' = Without(calls, i)
    /\ sessions' = Collected(WithSession(i, Deferred), chats, calls')
    /\ returned' = [id |-> calls[i].id, err |-> calls[i].err,
                    next |-> AfterPhaseA(calls[i].err, calls[i].tools)]
    /\ NoSweep
    /\ UNCHANGED <<chats, dataStorage, now, started>>
    /\ UNCHANGED otherThanMgr

RECURSIVE SeqOfSet(_)
SeqOfSet(S) ==
    IF S = {} THEN <<>>
    ELSE LET x == CHOOSE y \in S : TRUE IN <<x>> \o SeqOfSet(S \ {x})

RECURSIVE StoreAll(_, _)
StoreAll(st, cs) ==
    IF cs = <<>> THEN st
    ELSE StoreAll(StorageStore(st, Head(cs).key, Head(cs).msgs), Tail(cs))

\* a snapshot read that first takes the session's turn lock
SnapshotReadableUnlocked(c) == ~c.locked

\* chat.go:152-160: Chat.LastMessage and Chat.History return the field and
\* the Slice() without touching the locker: the sweep can read a session
\* whatever the state of its lock
SnapshotReadable(c) == TRUE

\* the Store call of the sweep went through
Stored(call) == ~call.failed

\* chats_manager.go:69-79: one tick of the sweep: ForEach over the registry;
\* an expired session is deleted, any other has its History() stored under
\* the key the registry holds it under. The Store calls for the keys in
\* failing return an error, which line 77 drops.
SweepTickWith(failing) ==
    LET expired == {k \in DOMAIN chats : Expired(sessions[chats[k]])}
        order == SeqOfSet(DOMAIN chats \ expired)
        stores == [i \in 1..Len(order) |->
                      [key |-> order[i], ch |-> chats[order[i]],
                       msgs |-> ChatHistory(sessions[chats[order[i]]]),
                       failed |-> order[i] \in failing]]
    IN /\ \A k \in DOMAIN chats : SnapshotReadable(sessions[chats[k]])
       /\ chats' = [k \in DOMAIN chats \ expired |-> chats[k]]
       /\ dataStorage' = StoreAll(dataStorage, SelectSeq(stores, Stored))
       /\ sweepCalls' = stores
       /\ sweepRemoved' = expired
       /\ NoEnd
       /\ sessions' = Collected(sessions, chats', calls)
       /\ UNCHANGED <<now, calls, started>>
       /\ UNCHANGED otherThanMgr

\* the sweep on the default MemoryStorage, whose Store returns no error
\* (memory.go:55-63)
SweepTick == SweepTickWith({})

\* time passes
Tick ==
    /\ now < MaxTime
    /\ now' = now + 1
    /\ NoSweep
    /\ NoEnd
    /\ UNCHANGED <<chats, sessions, dataStorage, calls, started>>
    /\ UNCHANGED otherThanMgr

MgrNext ==
    \/ MgrChatBegin
    \/ \E i \in 1..Len(calls) : MgrLock(i)
    \/ \E i \in 1..Len(calls) : MgrAdvance(i)
    \/ \E i \in 1..Len(calls) : MgrModel(i)
    \/ \E i \in 1..Len(calls) : MgrUnlock(i)
    \/ SweepTick
    \/ Tick

SpecManager == MgrInit /\ [][MgrNext]_vars

\* the step is the start of a ChatsManager.Chat call
CallStarts == started' > started

\* the call a CallStarts step starts
NewCall == calls'[Len(calls')]

\* a CallStarts step made a new Chat for its call
CallCreates ==
    CallStarts /\ (NewCall.ch \notin DOMAIN sessions \/ sessions[NewCall.ch] = Freed)

\* the references the registry holds to a session of the hashed id keyid
RegisteredFor(keyid) ==
    {chats[k] : k \in {x \in DOMAIN chats : sessions[chats[x]].id = keyid}}

\* C4: when a call starts while the registry holds a session for its id, the
\* call uses that very session and creates none.
C4_SessionReused ==
    [][(CallStarts /\ RegisteredFor(GetSHA1(NewCall.id)) # {})
          => (NewCall.ch \in RegisteredFor(GetSHA1(NewCall.id)) /\ ~CallCreates)]_vars

\* C5: every Store call of the sweep uses the key that ChatsManager.Chat
\* passed to Load when it created that session, which the session keeps as
\* its id.
C5_SweepKeyIsLoadKey ==
    \A i \in DOMAIN sweepCalls : sweepCalls[i].key = sessions[sweepCalls[i].ch].id

\* the Store calls the step made for the session of reference n
StoresOf(n) == {i \in DOMAIN sweepCalls' : sweepCalls'[i].ch = n}

\* what a sweep tick does to the session under registry key k, apart from
\* the key it stores under
SweptEntry(k) ==
    LET c == sessions[chats[k]]
    IN IF now - c.lastMessage > LifeTime
       THEN k \notin DOMAIN chats' /\ StoresOf(chats[k]) = {}
       ELSE /\ k \in DOMAIN chats' /\ chats'[k] = chats[k]
            /\ Cardinality(StoresOf(chats[k])) = 1
            /\ \A i \in StoresOf(chats[k]) : sweepCalls'[i].msgs = ChatHistory(c)

\* C6: on a sweep tick a session idle for longer than the lifetime leaves
\* the registry without a Store call; any other stays and is stored exactly
\* once, under the session's key, with its History().
C6_SweepTick ==
    [][SweepTick =>
          \A k \in DOMAIN chats :
              /\ SweptEntry(k)
              /\ \A i \in StoresOf(chats[k]) :
                     sweepCalls'[i].key = sessions[chats[k]].id]_vars

\* The same with the key the registry holds the session under, which is what
\* the sweep passes: everything else of the sweep tick is as described.
SweepStoresUnderRegistryKey ==
    [][SweepTick =>
          \A k \in DOMAIN chats :
              /\ SweptEntry(k)
              /\ \A i \in StoresOf(chats[k]) :
                     /\ sweepCalls'[i].key = k
                     /\ StorageLoad(dataStorage', k) = ChatHistory(sessions[chats[k]])]_vars

\* C30: a sweep tick removes a session only when it has been idle for
\* longer than the lifetime. The registry is built at time 0, so up to time
\* LifeTime no session is older, let alone idle for longer, than the
\* lifetime: a tick up to then removes nothing, in particular no session
\* whose first turn is still running.
C30_SweepRemovesOnlyIdle == sweepRemoved # {} => now > LifeTime

\* What the sweep does: a session it removes before the lifetime has passed
\* is one whose lastMessage is still the zero time, which no turn has set
\* yet; a session that has finished a turn is removed only when that was
\* longer ago than the lifetime.
SweepRemovesUnfinishedOrIdle ==
    [][SweepTick =>
          \A k \in sweepRemoved' :
              \/ sessions[chats[k]].lastMessage = ZeroTime
              \/ (sessions[chats[k]].lastMessage >= 0
                    /\ now - sessions[chats[k]].lastMessage > LifeTime)]_vars

\* a sweep tick at time 0 has removed the session of a call that is still in
\* its first turn
RunningSessionRemoved ==
    /\ now = 0
    /\ \E i \in 1..Len(calls) :
          /\ calls[i].id \in sweepRemoved
          /\ sessions[calls[i].ch].lastMessage = ZeroTime
          /\ sessions[calls[i].ch].locked

\* C37: the ChatsManager.Chat calls that run at the same time with one id
\* all run on one session, and while the registry holds a session for that
\* id it is that one: no call works on a session that another call's has
\* replaced in the registry.
C37_OneSessionPerId ==
    \A i, j \in 1..Len(calls) :
        calls[i].id = calls[j].id =>
            /\ calls[i].ch = calls[j].ch
            /\ calls[i].id \in DOMAIN chats => chats[calls[i].id] = calls[i].ch

\* What the registry does: every call creates a session of its own, whatever
\* the registry holds.
EveryCallOwnSession ==
    /\ \A i, j \in 1..Len(calls) : i # j => calls[i].ch # calls[j].ch
    /\ [][CallStarts => CallCreates]_vars

\* two calls with the id "a" are in their model calls on two sessions, each
\* holding that call's message only; the registry holds the second
OneIdTwoSessions ==
    /\ Len(calls) = 2
    /\ calls[1].id = "a" /\ calls[2].id = "a"
    /\ calls[1].pc = "model" /\ calls[2].pc = "model"
    /\ calls[1].ch # calls[2].ch
    /\ "a" \in DOMAIN chats /\ chats["a"] = calls[2].ch
    /\ sessions[calls[1].ch].locked /\ sessions[calls[2].ch].locked

(***************************************************************************)
(* SpecPair: the registry of SpecManager, started on an empty storage,     *)
(* with at most two ChatsManager.Chat calls running at a time.             *)
(***************************************************************************)
PairInit ==
    /\ MgrInit
    /\ dataStorage = [x \in {} |-> <<>>]

PairNext ==
    \/ Len(calls) < 2 /\ MgrChatBegin
    \/ \E i \in 1..Len(calls) : MgrLock(i)
    \/ \E i \in 1..Len(calls) : MgrAdvance(i)
    \/ \E i \in 1..Len(calls) : MgrModel(i)
    \/ \E i \in 1..Len(calls) : MgrUnlock(i)
    \/ SweepTick
    \/ Tick

SpecPair == PairInit /\ [][PairNext]_vars

\* the step is a step of the turn of call i
TurnStep(i) == MgrLock(i) \/ MgrAdvance(i) \/ MgrModel(i) \/ MgrUnlock(i)

\* call i can take the next step of its turn
CanStep(i) ==
    IF calls[i].pc = "phaseA" THEN ENABLED MgrLock(i)
    ELSE IF calls[i].pc \in {"userWritten", "replyWritten"} THEN ENABLED MgrAdvance(i)
    ELSE IF calls[i].pc = "model" THEN ENABLED MgrModel(i)
    ELSE ENABLED MgrUnlock(i)

\* C36: a step of a turn changes the history and the lastMessage of no
\* session but its own (a session nothing refers to any more may be
\* collected), and a call can always take the next step of its turn unless
\* it waits for the lock of its own session: no lock held, model call or
\* write function pending on another session holds it up.
C36_SessionsIsolated ==
    /\ [][\A i \in 1..Len(calls) :
            TurnStep(i) =>
               \A n \in DOMAIN sessions :
                  n # calls[i].ch =>
                     \/ sessions'[n] = Freed
                     \/ /\ sessions'[n].history = sessions[n].history
                        /\ sessions'[n].lastMessage = sessions[n].lastMessage]_vars
    /\ [](\A i \in 1..Len(calls) :
            (calls[i].pc = "phaseA" /\ sessions[calls[i].ch].locked) \/ CanStep(i))

\* two sessions are locked at the same time, each by a turn that waits for
\* the model
C36_Witness ==
    \E i, j \in 1..Len(calls) :
        /\ calls[i].ch # calls[j].ch
        /\ calls[i].pc = "model" /\ sessions[calls[i].ch].locked
        /\ calls[j].pc = "model" /\ sessions[calls[j].ch].locked

\* a sweep tick has just removed one session and stored another
SweepDidBoth == sweepRemoved # {} /\ sweepCalls # <<>>

\* C10: a session created for a key whose stored list is M holds M as its
\* History() when M fits the capacity, and the last ChatCap messages of M,
\* in order, when it does not.
C10_RestoreRoundTrip ==
    [][CallCreates =>
          LET c == sessions'[NewCall.ch]
              M == StorageLoad(dataStorage, c.id)
          IN ChatHistory(c) = LastN(M, Min(Len(M), ChatCap))]_vars

\* a call has just created its session from a stored list longer than the
\* capacity, and the session holds messages
C10_Witness ==
    \E i \in DOMAIN calls :
        /\ calls[i].pc = "phaseA"
        /\ calls[i].ch \in DOMAIN sessions
        /\ sessions[calls[i].ch].lastMessage = ZeroTime
        /\ Len(StorageLoad(dataStorage, sessions[calls[i].ch].id)) > ChatCap
        /\ Len(ChatHistory(sessions[calls[i].ch])) = ChatCap

\* C18: a ChatsManager.Chat call whose Phase A returned an error ends by
\* returning to its caller: it invokes no tool and runs no Phase B, the error
\* goes no further, and the step leaves the registry as it was, the failing
\* session and every other session included.
C18_TurnErrorSuppressed ==
    [][returned'.err => (returned'.next = "return" /\ chats' = chats)]_vars

\* a call on session "a" has just returned after its Phase A failed, and the
\* registry holds session "a" and another session
C18_Witness ==
    /\ returned.err
    /\ returned.id = "a"
    /\ returned.next = "return"
    /\ DOMAIN chats = Ids

(***************************************************************************)
(* SpecUnreliable: the registry of SpecManager configured with a storage   *)
(* whose Load and Store can return an error (FileStorage, RedisStorage).   *)
(* The ChatsManager.Chat calls come one after the other, the sweep ticks   *)
(* at any moment; concurrent calls are the subject of SpecManager.         *)
(***************************************************************************)
\* the storage holds a list for id "a" when the manager starts
UnreliableInit ==
    /\ MgrInit
    /\ dataStorage = [k \in {GetSHA1("a")} |-> OldList(ChatCap - 1)]

UnreliableNext ==
    \/ calls = <<>> /\ \E loadFails \in BOOLEAN : MgrChatBeginWith(loadFails)
    \/ \E i \in 1..Len(calls) : MgrLock(i)
    \/ \E i \in 1..Len(calls) : MgrAdvance(i)
    \/ \E i \in 1..Len(calls) : MgrModel(i)
    \/ \E i \in 1..Len(calls) : MgrUnlock(i)
    \/ \E failing \in SUBSET DOMAIN chats : SweepTickWith(failing)
    \/ Tick

SpecUnreliable == UnreliableInit /\ [][UnreliableNext]_vars

\* the step is a tick of the sweep
Swept == \E failing \in SUBSET DOMAIN chats : SweepTickWith(failing)

\* the Store calls the step made for registry key k that returned an error
FailedStoresOf(k) ==
    {i \in DOMAIN sweepCalls' : sweepCalls'[i].key = k /\ sweepCalls'[i].failed}

\* C33: on every sweep tick, and so on the tick after a failed one, Store is
\* attempted once for each session that has not been idle for longer than
\* the lifetime; whether that Store or any other of the tick fails or not,
\* the session stays in the registry, the same object with the same
\* history, and a failed Store leaves the storage as it was for that key.
C33_StoreFailureKeepsSession ==
    [][Swept =>
          \A k \in DOMAIN chats :
              LET c == sessions[chats[k]]
              IN ~(now - c.lastMessage > LifeTime) =>
                    /\ k \in DOMAIN chats'
                    /\ chats'[k] = chats[k]
                    /\ sessions'[chats[k]] = c
                    /\ Cardinality(StoresOf(chats[k])) = 1
                    /\ \A i \in StoresOf(chats[k]) :
                           sweepCalls'[i].msgs = ChatHistory(c)
                    /\ FailedStoresOf(k) # {} =>
                           StorageLoad(dataStorage', k) = StorageLoad(dataStorage, k)]_vars

\* a sweep tick has just called Store for two sessions; the first call
\* failed, the second went through, and both sessions are in the registry
C33_Witness ==
    /\ Len(sweepCalls) = 2
    /\ sweepCalls[1].failed
    /\ ~sweepCalls[2].failed
    /\ sweepCalls[1].key \notin DOMAIN dataStorage
    /\ sweepCalls[2].key \in DOMAIN dataStorage
    /\ \A i \in 1..2 :
          /\ sweepCalls[i].key \in DOMAIN chats
          /\ chats[sweepCalls[i].key] = sweepCalls[i].ch
          /\ ChatHistory(sessions[sweepCalls[i].ch]) = sweepCalls[i].msgs

\* C34: a ChatsManager.Chat call that finds no session and whose Load fails
\* creates the session all the same, with an empty history, registers it
\* under the id and goes on to Phase A.
C34_LoadFailureIsNoHistory ==
    [][(CallStarts /\ NewCall.loadErr) =>
          /\ CallCreates
          /\ NewCall.id \in DOMAIN chats'
          /\ chats'[NewCall.id] = NewCall.ch
          /\ ChatHistory(sessions'[NewCall.ch]) = <<>>
          /\ ~sessions'[NewCall.ch].locked
          /\ NewCall.pc = "phaseA"]_vars

\* a call whose Load failed although the storage holds a list for its id is
\* in the model call of Phase A, with only its own message in the history
C34_Witness ==
    \E i \in 1..Len(calls) :
        /\ calls[i].loadErr
        /\ calls[i].pc = "model"
        /\ StorageLoad(dataStorage, GetSHA1(calls[i].id)) # <<>>
        /\ ChatHistory(sessions[calls[i].ch]) = <<UserMsg(calls[i].message)>>

(***************************************************************************)
(* SpecLock: two goroutines call Chat.Chat on one Chat at the same time.   *)
(* The model call (do or doStream) is a step that fails, answers with      *)
(* text, or asks for tools; History.Store is its two statements.           *)
(***************************************************************************)
Callers == {1, 2}

\* what caller c sends and what the model answers to it
Question(c) == IF c = 1 THEN "q1" ELSE "q2"

Answer(c) == IF c = 1 THEN "r1" ELSE "r2"

LockInit ==
    /\ HistIdle
    /\ StorIdle
    /\ ReqIdle
    /\ TurnRestIdle
    /\ McpIdle
    /\ DispIdle
    /\ MgrIdle
    /\ StreamRestIdle
    /\ chat = ChatNew("c", ChatCap)
    /\ turns = [c \in Callers |-> [pc |-> "lock", message |-> "", outcome |-> ""]]

\* chat.go:191-203: c.locker.Lock(), then for a non-empty message
\* History.Store starts: the slot is written
TurnLock(c) ==
    /\ turns[c].pc = "lock"
    /\ CanLock(chat)
    /\ \E m \in {"", Question(c)} :
        /\ chat' = [chat EXCEPT
                       !.locked = TRUE,
                       !.history = IF m # "" THEN HistoryWrite(@, UserMsg(m))
                                   ELSE @]
        /\ turns' = [turns EXCEPT ![c].message = m,
                                  ![c].pc = IF m # "" THEN "userWritten"
                                            ELSE "model"]
    /\ UNCHANGED otherThanLock

\* history.go: History.Store ends: the ring advances past the written slot
TurnAdvance(c) ==
    /\ turns[c].pc \in {"userWritten", "replyWritten"}
    /\ chat' = [chat EXCEPT !.history = HistoryAdvance(@)]
    /\ turns' = [turns EXCEPT ![c].pc =
                    IF turns[c].pc = "userWritten" THEN "model" ELSE "unlock"]
    /\ UNCHANGED otherThanLock

\* chat.go:204-231: the model call: it fails, answers with text (the Store
\* of the assistant message starts), or asks for tools
TurnModel(c) ==
    /\ turns[c].pc = "model"
    /\ \E outcome \in Outcomes :
        /\ chat' = [chat EXCEPT
                       !.history = IF HasText(outcome)
                                   THEN HistoryWrite(@, AssistantMsg(Answer(c)))
                                   ELSE @]
        /\ turns' = [turns EXCEPT ![c].outcome = outcome,
                                  ![c].pc = IF HasText(outcome)
                                            THEN "replyWritten" ELSE "unlock"]
    /\ UNCHANGED otherThanLock

\* chat.go:187-190: the deferred function: lastMessage = time.Now(), Unlock
TurnUnlock(c) ==
    /\ turns[c].pc = "unlock"
    /\ chat' = Deferred(chat)
    /\ turns' = [turns EXCEPT ![c].pc = "done"]
    /\ UNCHANGED otherThanLock

LockNext ==
    \/ \E c \in Callers : TurnLock(c)
    \/ \E c \in Callers : TurnAdvance(c)
    \/ \E c \in Callers : TurnModel(c)
    \/ \E c \in Callers : TurnUnlock(c)

SpecLock == LockInit /\ [][LockNext]_vars

\* the callers between Lock and Unlock
Inside == {c \in Callers : turns[c].pc \notin {"lock", "done"}}

\* the history after caller c's whole turn has run alone on history u
AfterTurn(u, c) ==
    LET u1 == IF turns[c].message # ""
              THEN HistoryStore(u, UserMsg(turns[c].message)) ELSE u
    IN IF HasText(turns[c].outcome)
       THEN HistoryStore(u1, AssistantMsg(Answer(c))) ELSE u1

\* the history after the turns of a and then b, one after the other
Serial(a, b) == AfterTurn(AfterTurn(HistoryNew(ChatCap), a), b)

\* C7: at most one of two concurrent Chat.Chat calls on one Chat is between
\* Lock and Unlock, and once both have returned the history is the one that
\* running them one after the other, in one of the two orders, produces.
C7_TurnsAreSerial ==
    /\ Cardinality(Inside) <= 1
    /\ (\A c \in Callers : turns[c].pc = "done")
          => chat.history \in {Serial(1, 2), Serial(2, 1)}

\* both calls have returned, each stored its question and its answer, and
\* the two serial orders differ
C7_Witness ==
    /\ \A c \in Callers :
          turns[c].pc = "done" /\ turns[c].message # "" /\ turns[c].outcome = "text"
    /\ Serial(1, 2) # Serial(2, 1)
    /\ ~chat.locked

(***************************************************************************)
(* SpecSnapshot: the turns of SpecLock on one Chat while the sweep's       *)
(* goroutine reads that Chat.                                              *)
(***************************************************************************)
\* chats_manager.go:72-77, the body of the sweep's ForEach for one session:
\* an expired session is deleted; for any other,
\* dataStorage.Store(key, value.History()), and History() is History.Slice()
\* on the ring as it is at that moment, whatever a turn is doing to it
SnapshotRead ==
    /\ chat.id # ""
    /\ SnapshotReadable(chat)
    /\ IF Expired(chat)
       THEN /\ sweepRemoved' = {chat.id}
            /\ sweepCalls' = <<>>
       ELSE /\ sweepRemoved' = {}
            /\ sweepCalls' = <<[key |-> chat.id, ch |-> 0,
                                msgs |-> ChatHistory(chat), failed |-> FALSE]>>
    /\ UNCHANGED <<chats, sessions, dataStorage, now, calls, started, returned>>
    /\ UNCHANGED <<histVars, streamVars, dispVars, lockVars, storVars, mcpVars,
                   reqVars, turnVars>>

SnapshotNext ==
    \/ LockNext
    \/ SnapshotRead

SpecSnapshot == LockInit /\ [][SnapshotNext]_vars

\* the callers whose History.Store has written its slot and not yet moved
\* the ring on
Storing == {c \in Callers : turns[c].pc \in {"userWritten", "replyWritten"}}

\* the message caller c is storing
InFlight(c) ==
    IF turns[c].pc = "userWritten" THEN UserMsg(turns[c].message)
    ELSE AssistantMsg(Answer(c))

\* s is the history as it was just before message m was appended, given the
\* history after: after without m, with at most one older message, which
\* the append evicted, in front
JustBefore(s, after, m) ==
    LET body == SubSeq(after, 1, Len(after) - 1)
    IN \/ s = body
       \/ /\ Len(after) = ChatCap
          /\ Len(s) = ChatCap
          /\ Tail(s) = body
          /\ s[1] # m

\* C31: wherever the turns on a Chat stand, whether its lock is held or
\* not, the sweep's visit of that Chat can take place, and it leaves the
\* lock and the turns as they are: the sweep never waits for, takes or
\* releases a turn lock.
C31_SweepNeedsNoLock ==
    ENABLED (SnapshotRead /\ chat'.locked = chat.locked /\ turns' = turns)

\* the sweep has stored a snapshot that holds the question of a turn which
\* has the lock and waits for the model
C31_Witness ==
    \E c \in Callers :
        /\ turns[c].pc = "model"
        /\ turns[c].message # ""
        /\ chat.locked
        /\ sweepCalls # <<>>
        /\ sweepCalls[1].msgs[Len(sweepCalls[1].msgs)] = UserMsg(turns[c].message)

\* C32: a snapshot the sweep takes of a Chat while a turn is appending a
\* message is the history just before or just after that append: the
\* messages in append order, oldest first, with or without the message in
\* flight.
C32_SnapshotBeforeOrAfterAppend ==
    [][(SnapshotRead /\ sweepCalls' # <<>>) =>
          \A c \in Storing :
              LET snap == sweepCalls'[1].msgs
                  after == HistorySlice(HistoryAdvance(chat.history))
              IN snap = after \/ JustBefore(snap, after, InFlight(c))]_vars

\* A snapshot taken while no Store is between its two statements is the
\* history.
SnapshotExactWhenNoStore ==
    [][(SnapshotRead /\ sweepCalls' # <<>> /\ Storing = {}) =>
          sweepCalls'[1].msgs = HistorySlice(chat.history)]_vars

\* A snapshot taken between the two statements of a Store begins with the
\* message in flight: Slice starts at the ring position, which still is
\* the slot just written.
SnapshotStartsWithInFlight ==
    [][(SnapshotRead /\ sweepCalls' # <<>>) =>
          \A c \in Storing : sweepCalls'[1].msgs[1] = InFlight(c)]_vars

\* the sweep has stored a snapshot in which the reply a turn is appending
\* stands before the older question of that turn
NewestFirstSnapshot ==
    \E c \in Callers :
        /\ turns[c].pc = "replyWritten"
        /\ turns[c].message # ""
        /\ sweepCalls # <<>>
        /\ sweepCalls[1].msgs = <<AssistantMsg(Answer(c)), UserMsg(Question(c))>>

\* every goroutine that can take a step of its Chat.Chat call is scheduled,
\* and the model call returns
LockFairness ==
    \A c \in Callers :
        WF_vars(TurnLock(c) \/ TurnAdvance(c) \/ TurnModel(c) \/ TurnUnlock(c))

SpecLockFair == LockInit /\ [][LockNext]_vars /\ LockFairness

\* C16: whenever no Chat.Chat call is between Lock and Unlock the lock is
\* free, whatever the calls that returned came to (reply, model error, write
\* function error), and every call waiting at Lock eventually acquires the
\* lock, runs and returns.
C16_LockReleasedOnEveryPath ==
    /\ [](Inside = {} => ~chat.locked)
    /\ \A c \in Callers : (turns[c].pc = "lock") ~> (turns[c].pc = "done")

\* a call holds the lock after another call on the same Chat has returned
\* with an error
C16_Witness ==
    \E c, d \in Callers :
        /\ turns[d].pc = "done"
        /\ turns[d].outcome \in Failures
        /\ turns[c].pc = "model"
        /\ chat.locked

(***************************************************************************)
(* SpecStorage: one Storage (MemoryStorage, FileStorage over BoltDB, or    *)
(* RedisStorage over a Redis hash) under Store and Load calls. The backend *)
(* itself does not fail.                                                   *)
(***************************************************************************)
Impls == {"memory", "file", "redis"}

\* the chat ids, in the byte order BoltDB iterates its keys in
KeyOrder == <<"k1", "k2">>

Keys == {KeyOrder[i] : i \in DOMAIN KeyOrder}

\* the messages of a conversation, in order
Conversation(n) ==
    [i \in 1..n |-> IF i % 2 = 1 THEN UserMsg("hi") ELSE AssistantMsg("re")]

\* the []*model.ChatCompletionMessage values passed to Store: the nil slice
\* and the slices of 0..MaxList messages
GoSlices ==
    {[isNil |-> TRUE, items |-> <<>>]}
        \cup {[isNil |-> FALSE, items |-> Conversation(n)] : n \in 0..MaxList}

\* json.Marshal / json.MarshalToString of a slice: null for the nil slice,
\* an array of the messages otherwise
JsonMarshal(sl) ==
    IF sl.isNil THEN [json |-> "null", items |-> <<>>]
    ELSE [json |-> "array", items |-> sl.items]

\* json.Unmarshal into a []*model.ChatCompletionMessage: null gives the nil
\* slice, an array its messages
JsonUnmarshalList(v) == IF v.json = "null" THEN <<>> ELSE v.items

\* model.ChatCompletionMessage{}: the zero message
ZeroMessage == Msg("", "", "")

\* json.UnmarshalFromString into a *model.ChatCompletionMessage (an object):
\* null leaves the zero message, an array is a type error
JsonUnmarshalMessage(v) ==
    IF v.json = "null" THEN [err |-> FALSE, msg |-> ZeroMessage]
    ELSE [err |-> TRUE, msg |-> ZeroMessage]

\* part_001:114-122: db.ForEach over every key of the database, whatever the
\* chatid: each value is decoded as ONE message and appended. A value that
\* does not decode makes the callback return the error; stops tells whether
\* ForEach ends the iteration on it or goes on.
RECURSIVE FileForEach(_, _, _, _)
FileForEach(d, ks, stops, data) ==
    IF ks = <<>> THEN data
    ELSE IF Head(ks) \notin DOMAIN d
    THEN FileForEach(d, Tail(ks), stops, data)
    ELSE LET r == JsonUnmarshalMessage(d[Head(ks)])
         IN IF r.err
            THEN IF stops THEN data ELSE FileForEach(d, Tail(ks), stops, data)
            ELSE FileForEach(d, Tail(ks), stops, Append(data, r.msg))

\* part_001:112-124: FileStorage.Load
FileLoad(d, chatid, stops) ==
    [key |-> chatid, msgs |-> FileForEach(d, KeyOrder, stops, <<>>),
     err |-> FALSE]

\* memory.go:74-81: MemoryStorage.Load
MemoryLoad(d, chatid) ==
    [key |-> chatid, msgs |-> StorageLoad(d, chatid), err |-> FALSE]

\* history.go:199-212: RedisStorage.Load: HGet of a missing field is the
\* error redis.Nil, returned with a nil list
RedisLoad(d, chatid) ==
    IF chatid \notin DOMAIN d
    THEN [key |-> chatid, msgs |-> <<>>, err |-> TRUE]
    ELSE [key |-> chatid, msgs |-> JsonUnmarshalList(d[chatid]), err |-> FALSE]

StorInit ==
    /\ HistIdle
    /\ LockIdle
    /\ StreamIdle
    /\ DispIdle
    /\ MgrIdle
    /\ McpIdle
    /\ ReqIdle
    /\ TurnRestIdle
    /\ impl \in Impls
    /\ db = <<>>
    /\ stored = <<>>
    /\ loaded = NoLoad

\* Storage.Store(chatid, history): memory.go:55-63 keeps the slice,
\* part_001:136-142 and history.go:218-226 write its JSON text under chatid
StStore ==
    \E k \in Keys, sl \in GoSlices :
        /\ db' = IF impl = "memory" THEN StorageStore(db, k, sl.items)
                  ELSE StorageStore(db, k, JsonMarshal(sl))
        /\ stored' = StorageStore(stored, k, sl.items)
        /\ loaded' = NoLoad
        /\ UNCHANGED impl
        /\ UNCHANGED otherThanStor

\* Storage.Load(chatid)
StLoad ==
    \E k \in Keys, stops \in BOOLEAN :
        /\ loaded' = IF impl = "memory" THEN MemoryLoad(db, k)
                      ELSE IF impl = "redis" THEN RedisLoad(db, k)
                      ELSE FileLoad(db, k, stops)
        /\ UNCHANGED <<impl, db, stored>>
        /\ UNCHANGED otherThanStor

StorNext == StStore \/ StLoad

SpecStorage == StorInit /\ [][StorNext]_vars

\* what Load(k) has to return: the list of the latest Store(k, .), the
\* empty list when there was none
Latest(k) == IF k \in DOMAIN stored THEN stored[k] ELSE <<>>

\* C19: for each of the three implementations and after any Store calls,
\* Load(k) returns the list of the most recent Store(k, .) and the empty list
\* for a key never stored; so a Store under another key changes nothing of it.
C19_LoadReturnsLatestStore ==
    loaded.key # "" => loaded.msgs = Latest(loaded.key)

\* MemoryStorage and RedisStorage do return the latest list of the key
\* (RedisStorage with an error next to the empty list of a missing key).
MemoryAndRedisLoadLatest ==
    (impl # "file" /\ loaded.key # "")
        => /\ loaded.msgs = Latest(loaded.key)
           /\ loaded.err <=> (impl = "redis" /\ loaded.key \notin DOMAIN stored)

\* FileStorage.Load never returns a stored message: its list holds one zero
\* message for some of the keys stored with a nil list, and nothing else.
FileLoadReturnsNoStoredMessage ==
    (impl = "file" /\ loaded.key # "")
        => /\ \A i \in 1..Len(loaded.msgs) : loaded.msgs[i] = ZeroMessage
           /\ Len(loaded.msgs) <= Cardinality(DOMAIN stored)

\* MemoryStorage has returned the latest of two lists stored under one key
\* while another key holds a different list
MemoryLoadedLatest ==
    /\ impl = "memory"
    /\ loaded.key = "k1"
    /\ loaded.msgs = Conversation(MaxList)
    /\ "k2" \in DOMAIN stored
    /\ stored["k2"] # loaded.msgs

(***************************************************************************)
(* SpecCatalogue: the tool catalogue of one McpClient under AddTools and   *)
(* ReloadTools. mcpcli.New builds a client with no server and a nil idx;   *)
(* nothing in the package adds a server (loadTools panics before it does), *)
(* so the clients with connected servers and a made idx that are explored  *)
(* besides are the ones code inside the package can build.                 *)
(***************************************************************************)
\* the URIs of the MCP servers
Uris == {"u1", "u2"}

\* what ListTools of a server can answer with: the names of its tools, in
\* order. Servers can offer tools of the same name, and a server's tools
\* can change from one call to the next. The empty list stands for a server
\* without tools and for a ListTools that failed: both leave the client as
\* it was.
ToolLists == {<<>>, <<"f">>, <<"g">>, <<"f", "g">>}

\* the uri of the server connected under clikey
UriOf(clikey) == CHOOSE u \in Uris : GetSHA1(u) = clikey

\* the address of a newly allocated model.Tool: one no live tool has
FreshPtr(ts) == CHOOSE p \in 1..(Cardinality(ts) + 1) :
                    /\ \A t \in ts : t.ptr # p
                    /\ \A q \in 1..(p - 1) : \E t \in ts : t.ptr = q

\* mapfx.UniqueSlice[*model.Tool].Store: the element is added unless an
\* equal element, that is the same pointer, is held already
UniqueStore(ts, t) == ts \cup {t}

\* mcpcli.go:217-232: the loop of loadTools over the tools of one server:
\* a new model.Tool per tool, m.idx[name] = clikey, m.tools.Store(vt)
RECURSIVE LoadLoop(_, _, _)
LoadLoop(st, clikey, names) ==
    IF names = <<>> THEN st
    ELSE LET vt == [ptr |-> FreshPtr(st.tools), name |-> Head(names),
                    srv |-> clikey]
         IN LoadLoop([tools |-> UniqueStore(st.tools, vt),
                      m |-> StorageStore(st.m, Head(names), clikey),
                      regs |-> Append(st.regs, vt)],
                     clikey, Tail(names))

\* the catalogue, the routing index and the registrations of the client
McpState == [tools |-> tools, m |-> toolIdx.m, regs |-> regs]

\* the same after m.tools.Clear()
Cleared == [tools |-> {}, m |-> toolIdx.m, regs |-> <<>>]

\* mcpcli.go:159-164: the loop of ReloadTools over m.clis in the order the
\* map iteration takes, listed[k] being the answer of server k; StoreMany of
\* the slice loadTools returned adds no new pointer
RECURSIVE ReloadLoop(_, _, _)
ReloadLoop(st, order, listed) ==
    IF order = <<>> THEN st
    ELSE ReloadLoop(LoadLoop(st, Head(order), listed[Head(order)]),
                    Tail(order), listed)

\* the orders a range over the map m.clis can take
Orders(S) ==
    {o \in [1..Cardinality(S) -> S] :
        \A i, j \in 1..Cardinality(S) : o[i] = o[j] => i = j}

McpInit ==
    /\ HistIdle
    /\ LockIdle
    /\ StreamIdle
    /\ DispIdle
    /\ MgrIdle
    /\ StorIdle
    /\ ReqIdle
    /\ TurnRestIdle
    /\ \E connected \in SUBSET Uris :
          clis = [k \in {GetSHA1(u) : u \in connected} |-> UriOf(k)]
    /\ tools = {}
    /\ toolIdx \in {[isNil |-> TRUE, m |-> <<>>], [isNil |-> FALSE, m |-> <<>>]}
    /\ regs = <<>>
    /\ panicked = FALSE

\* mcpcli.go:138-144 and 184-234: AddTools(mcpUri). The empty URI is
\* ignored. For a server that is not in m.clis, cli is a nil *mclient and
\* cli.uri at line 189 panics. The first m.idx[name] assignment panics when
\* idx is the nil map.
AddTools ==
    \E mcpUri \in Uris \cup {""}, listed \in ToolLists :
        /\ ~panicked
        /\ Cardinality(tools) + Len(listed) <= MaxTools
        /\ IF mcpUri = "" \/ (GetSHA1(mcpUri) \in DOMAIN clis /\ listed = <<>>)
           THEN UNCHANGED <<tools, toolIdx, regs, panicked>>
           ELSE IF GetSHA1(mcpUri) \notin DOMAIN clis \/ toolIdx.isNil
           THEN panicked' = TRUE /\ UNCHANGED <<tools, toolIdx, regs>>
           ELSE LET st == LoadLoop(McpState, GetSHA1(mcpUri), listed)
                IN /\ tools' = st.tools
                   /\ toolIdx' = [toolIdx EXCEPT !.m = st.m]
                   /\ regs' = st.regs
                   /\ UNCHANGED panicked
        /\ UNCHANGED clis
        /\ UNCHANGED otherThanMcp

\* mcpcli.go:153-166: ReloadTools: m.tools.Clear(), then loadTools of every
\* server of m.clis
ReloadTools ==
    \E order \in Orders(DOMAIN clis), listed \in [DOMAIN clis -> ToolLists] :
        /\ ~panicked
        /\ IF toolIdx.isNil /\ \E k \in DOMAIN clis : listed[k] # <<>>
           THEN /\ panicked' = TRUE
                /\ tools' = {}
                /\ regs' = <<>>
                /\ UNCHANGED toolIdx
           ELSE LET st == ReloadLoop(Cleared, order, listed)
                IN /\ tools' = st.tools
                   /\ toolIdx' = [toolIdx EXCEPT !.m = st.m]
                   /\ regs' = st.regs
                   /\ UNCHANGED panicked
        /\ UNCHANGED clis
        /\ UNCHANGED otherThanMcp

McpNext == AddTools \/ ReloadTools

SpecCatalogue == McpInit /\ [][McpNext]_vars

\* the first registration of a name since the catalogue was last cleared
FirstReg(name) ==
    regs[CHOOSE i \in 1..Len(regs) :
             /\ regs[i].name = name
             /\ \A j \in 1..(i - 1) : regs[j].name # name]

\* the names registered since the catalogue was last cleared
RegNames == {regs[i].name : i \in 1..Len(regs)}

CatalogueIsRegistrations ==
    /\ tools = {regs[i] : i \in 1..Len(regs)}
    /\ Cardinality(tools) = Len(regs)

\* The client mcpcli.New builds never holds a tool: AddTools of any server
\* panics, and ReloadTools finds no server.
NewClientHoldsNoTool ==
    clis = <<>> => (tools = {} /\ toolIdx.m = <<>>)

\* the catalogue holds tool "f" of both servers, and the routing index
\* routes "f" to the server registered last
BothServersToolHeld ==
    /\ ~panicked
    /\ Len(regs) >= 2
    /\ \E t, u \in tools : t.name = "f" /\ u.name = "f" /\ t.srv # u.srv
    /\ toolIdx.m["f"] # FirstReg("f").srv

(***************************************************************************)
(* The request Chat.Chat builds from its message and its options, and the  *)
(* options ChatsManager.Chat passes in Phase A and in Phase B.             *)
(***************************************************************************)
RoleSystem == "system"

SystemMsg == Msg(RoleSystem, "be brief", "")

\* the tool-result message of the i-th tool call of a batch
ToolResult(i) == Msg(RoleTool, "result", CallIdOf[i])

\* chat.go:192-198: the options of a Chat.Chat call that passes none
DefaultOpt == [toolcalled |-> <<>>, roleSystem |-> <<>>, tools |-> <<>>,
               stream |-> FALSE]

\* a call that leaves the tool-result messages it was passed out of the
\* history
BeforeRequestNoResults(u, text, co) ==
    IF text # "" THEN HistoryStore(u, UserMsg(text)) ELSE u

\* chat.go:202-209 and 219-220: the history when the request is built: the
\* user message is stored when the text is not empty, the tool-result
\* messages are stored when there are any
BeforeRequest(u, text, co) ==
    LET u1 == IF text # "" THEN HistoryStore(u, UserMsg(text)) ELSE u
    IN IF Len(co.toolcalled) > 0 THEN HistoryStoreMany(u1, co.toolcalled)
       ELSE u1

\* a request that carries whatever tool list the call was given
RequestToolsAlways(co) == co.tools

\* chat.go:219-225: req.Tools is set only in the branch without tool-result
\* messages, and there only for a non-empty tool list
RequestTools(co) == IF Len(co.toolcalled) > 0 THEN <<>> ELSE co.tools

\* a request whose system-role messages come after the history
RequestMessagesSystemLast(rs, u) == HistorySlice(u) \o rs

\* chat.go:210-227: msgs is the system-role messages followed by
\* c.history.Slice()
RequestMessages(rs, u) == rs \o HistorySlice(u)

\* chat.go:211-227: the request of a Chat.Chat call on history u
ChatRequest(u, text, co) ==
    [messages |-> RequestMessages(co.roleSystem, BeforeRequest(u, text, co)),
     tools |-> RequestTools(co),
     stream |-> co.stream]

\* a call that stores the text it received although the sink failed
AfterReplyKeepsPartial(u, outcome) ==
    IF HasText(outcome) \/ outcome = "sink"
    THEN HistoryStore(u, AssistantMsg("re")) ELSE u

\* chat.go:292-299 and 322-327: doStream and do store the assistant message
\* of a reply that carries text; every error return (251-253, 261-265,
\* 268-271, 311-313, 317-320) comes before the Store
AfterReply(u, outcome) ==
    IF HasText(outcome) THEN HistoryStore(u, AssistantMsg("re")) ELSE u

\* chat.go:186-232: the history a Chat.Chat call leaves
ChatChat(u, text, co, outcome) ==
    AfterReply(BeforeRequest(u, text, co), outcome)

\* what is recorded of a Chat.Chat call
Issued(u, text, co, outcome) ==
    [op |-> "Chat", text |-> text, co |-> co, req |-> ChatRequest(u, text, co),
     outcome |-> outcome, before |-> HistorySlice(u),
     after |-> HistorySlice(ChatChat(u, text, co, outcome))]

\* chats_manager.go:177-181: Phase A passes the tool catalogue, the write
\* function and stream = (ToolCount() == 0)
PhaseAOpts(c) ==
    [DefaultOpt EXCEPT !.tools = c.catalogue,
                       !.stream = (Len(c.catalogue) = 0)]

\* a Phase B that takes its stream flag as Phase A does
PhaseBOptsAsPhaseA(c, ms) ==
    [DefaultOpt EXCEPT !.toolcalled = ms, !.stream = (Len(c.catalogue) = 0),
                       !.roleSystem = c.roleSystem]

\* chats_manager.go:219-224: Phase B passes the aggregated messages,
\* stream = true, the write function and the configured system messages
PhaseBOpts(c, ms) ==
    [DefaultOpt EXCEPT !.toolcalled = ms, !.stream = TRUE,
                       !.roleSystem = c.roleSystem]

(***************************************************************************)
(* SpecTurn: one ChatsManager.Chat call from Phase A to its return, on a   *)
(* new session. The collector goroutine is folded into the workers (a      *)
(* successful call's message is aggregated when its worker returns);       *)
(* SpecDispatch follows the channel and the collector step by step.        *)
(***************************************************************************)
\* the configurations explored: with and without system-role messages, with
\* and without a tool in the catalogue
Configs == [roleSystem : {<<>>, <<SystemMsg>>}, catalogue : {<<>>, <<"f">>}]

\* the texts ChatsManager.Chat is called with
TurnTexts == {"", "hi"}

TurnInit ==
    /\ HistIdle
    /\ LockIdle
    /\ StreamIdle
    /\ DispIdle
    /\ MgrIdle
    /\ StorIdle
    /\ McpIdle
    /\ cfg \in Configs
    /\ sess = HistoryNew(ChatCap)
    /\ issued = <<>>
    /\ nreq = 0
    /\ tpc = "phaseA"
    /\ phaseA = [n |-> 0, err |-> FALSE]
    /\ tgo = 0
    /\ tinvoked = 0
    /\ twg = 0
    /\ tmsgs = <<>>
    /\ pending = {}

\* chats_manager.go:177-230, the goroutine of ChatsManager.Chat:
\*   phaseA -> ch.Chat(message, ...); an error returns, an empty map returns,
\*             a map of n calls goes on
\*   launch -> wg.Add(l), the collector goroutine and one wg.Go per call
\*   wait   -> wg.Wait(), then the sentinel and <-ctxdone.Done()
\*   phaseB -> ch.Chat("", ...) when len(msgs) > 0
TurnMain ==
    /\ IF tpc = "phaseA"
       THEN \E text \in TurnTexts, outcome \in Outcomes, n \in 0..MaxCalls :
              /\ (n > 0) <=> HasTools(outcome)
              /\ issued' = Append(issued,
                               Issued(sess, text, PhaseAOpts(cfg), outcome))
              /\ sess' = ChatChat(sess, text, PhaseAOpts(cfg), outcome)
              /\ phaseA' = [n |-> n, err |-> outcome \in Failures]
              /\ tpc' = IF AfterPhaseA(outcome \in Failures, n > 0) = "dispatch"
                        THEN "launch" ELSE "returned"
              /\ UNCHANGED <<tgo, twg, pending>>
       ELSE IF tpc = "launch"
       THEN /\ twg' = WgAfterLaunch(phaseA.n)
            /\ tgo' = tgo + 1 + phaseA.n
            /\ pending' = 1..phaseA.n
            /\ tpc' = "wait"
            /\ UNCHANGED <<sess, issued, phaseA>>
       ELSE IF tpc = "wait"
       THEN /\ twg = 0
            /\ tpc' = IF Len(tmsgs) > 0 THEN "phaseB" ELSE "returned"
            /\ UNCHANGED <<sess, issued, phaseA, tgo, twg, pending>>
       ELSE /\ tpc = "phaseB"
            /\ \E outcome \in Outcomes :
                 /\ issued' = Append(issued,
                                  Issued(sess, "", PhaseBOpts(cfg, tmsgs), outcome))
                 /\ sess' = ChatChat(sess, "", PhaseBOpts(cfg, tmsgs), outcome)
            /\ tpc' = "returned"
            /\ UNCHANGED <<phaseA, tgo, twg, pending>>
    /\ UNCHANGED <<cfg, tinvoked, tmsgs, nreq>>
    /\ UNCHANGED otherThanTurn

\* chats_manager.go:203-210: the goroutine of the i-th tool call:
\* McpClient.Call returns a message, which is aggregated, or an error, which
\* is logged; then WaitGroup.Go calls Done
TurnWorker(i) ==
    /\ i \in pending
    /\ tinvoked' = tinvoked + 1
    /\ \E ok \in BOOLEAN :
         tmsgs' = IF ok THEN Append(tmsgs, ToolResult(i)) ELSE tmsgs
    /\ twg' = twg - 1
    /\ pending' = pending \ {i}
    /\ UNCHANGED <<cfg, sess, issued, nreq, tpc, phaseA, tgo>>
    /\ UNCHANGED otherThanTurn

TurnNext ==
    \/ TurnMain
    \/ \E i \in 1..MaxCalls : TurnWorker(i)

SpecTurn == TurnInit /\ [][TurnNext]_vars

\* C21: a registry turn whose Phase A returned an empty tool-call map (and
\* no error) returns having made exactly one model call, invoked no tool and
\* started no goroutine.
C21_NoToolCallsOneModelCall ==
    (tpc = "returned" /\ ~phaseA.err /\ phaseA.n = 0)
        => (Len(issued) = 1 /\ tinvoked = 0 /\ tgo = 0)

\* a turn that offered a tool got a text reply without tool calls and has
\* returned
C21_Witness ==
    /\ tpc = "returned"
    /\ ~phaseA.err
    /\ phaseA.n = 0
    /\ cfg.catalogue # <<>>
    /\ Len(issued) = 1
    /\ issued[1].outcome = "text"
    /\ issued[1].req.tools # <<>>

\* C27: a registry turn whose Phase A returned a non-empty tool-call map
\* has, once it has come to rest, called Chat.Chat a second time with the
\* messages the dispatch aggregated, whatever number of calls succeeded.
C27_PhaseBFollowsDispatch ==
    (~ENABLED TurnNext /\ ~phaseA.err /\ phaseA.n > 0)
        => /\ Len(issued) = 2
           /\ issued[2].co.toolcalled = tmsgs

\* What the turn does instead: after a non-empty map it issues no second
\* request and never leaves wg.Wait().
TurnRestsInWait ==
    (~phaseA.err /\ phaseA.n > 0) => (Len(issued) = 1 /\ tpc \in {"launch", "wait"})

\* every tool call of a turn has returned, one of them with a message, and
\* the turn rests in wg.Wait() with the counter above zero
TurnStuckWithResults ==
    /\ tpc = "wait"
    /\ pending = {}
    /\ tinvoked = phaseA.n
    /\ Len(tmsgs) > 0
    /\ twg > 0
    /\ Len(issued) = 1

\* C25: every request a registry turn issues, in Phase A and in Phase B,
\* begins with the system-role messages the registry is configured with.
C25_EveryRequestBeginsWithSystem ==
    \A i \in 1..Len(issued) :
        /\ Len(issued[i].req.messages) >= Len(cfg.roleSystem)
        /\ SubSeq(issued[i].req.messages, 1, Len(cfg.roleSystem)) = cfg.roleSystem

\* The request of Phase A holds the history only: it carries a system-role
\* message under no configuration.
PhaseARequestHasNoSystem ==
    Len(issued) >= 1 =>
        \A j \in 1..Len(issued[1].req.messages) :
            issued[1].req.messages[j].role # RoleSystem

\* a registry configured with a system-role message has issued its Phase A
\* request, which begins with the user message
PhaseAIssuedWithoutSystem ==
    /\ cfg.roleSystem = <<SystemMsg>>
    /\ Len(issued) = 1
    /\ issued[1].req.messages = <<UserMsg("hi")>>

(***************************************************************************)
(* SpecRequest: one Chat of capacity ChatCap under Chat.Chat calls with    *)
(* any options, SetHistory calls, and FromJSON calls on its History.       *)
(* issued holds the latest call only.                                      *)
(***************************************************************************)
\* the tool-result messages of a batch of n calls
ToolResults(n) == [i \in 1..n |-> ToolResult(i)]

\* the options a Chat.Chat call is given
AllOpts ==
    [toolcalled : {ToolResults(n) : n \in 0..MaxCalls},
     roleSystem : {<<>>, <<SystemMsg>>},
     tools : {<<>>, <<"f">>},
     stream : BOOLEAN]

\* the lists given to SetHistory: 0 to ChatCap + 1 messages of an earlier
\* conversation
Restored(n) == [i \in 1..n |-> UserMsg(IF i % 2 = 1 THEN "old1" ELSE "old2")]

RestoredLists == {Restored(n) : n \in 0..(ChatCap + 1)}

\* the texts given to FromJSON: the JSON of such a list, and a text that is
\* not JSON
JsonTexts ==
    {JsonMarshal([isNil |-> FALSE, items |-> hs]) : hs \in RestoredLists}
        \cup {[json |-> "invalid", items |-> <<>>]}

\* history.go:131-139: History.FromJSON: a text that does not parse returns
\* the error; the parsed list goes to StoreMany
HistoryFromJSON(u, v) ==
    IF v.json = "invalid" THEN u ELSE HistoryStoreMany(u, JsonUnmarshalList(v))

\* what matters of a reply to the history: the model call fails, the sink
\* fails, the reply carries no text (tool calls only), or it carries text
ReqOutcomes == {"err", "sink", "tools", "text"}

ReqInit ==
    /\ HistIdle
    /\ LockIdle
    /\ StreamIdle
    /\ DispIdle
    /\ MgrIdle
    /\ StorIdle
    /\ McpIdle
    /\ TurnRestIdle
    /\ sess = HistoryNew(ChatCap)
    /\ issued = <<>>
    /\ nreq = 0

\* chat.go:186-232: Chat.Chat(message, opts...)
ReqChat ==
    \E text \in TurnTexts, co \in AllOpts, outcome \in ReqOutcomes :
        /\ nreq < MaxReqs
        /\ nreq' = nreq + 1
        /\ issued' = <<Issued(sess, text, co, outcome)>>
        /\ sess' = ChatChat(sess, text, co, outcome)
        /\ UNCHANGED otherThanReq

\* chat.go:165-167: Chat.SetHistory(h)
ReqSetHistory ==
    \E hs \in RestoredLists :
        LET after == SetHistory([history |-> sess], hs).history
        IN /\ issued' = <<[op |-> "SetHistory", given |-> hs,
                           before |-> HistorySlice(sess),
                           after |-> HistorySlice(after)]>>
           /\ nreq < MaxReqs
           /\ nreq' = nreq + 1
           /\ sess' = after
           /\ UNCHANGED otherThanReq

\* history.go:131-139: History.FromJSON(s) on the History of the Chat
ReqFromJSON ==
    \E v \in JsonTexts :
        LET after == HistoryFromJSON(sess, v)
        IN /\ issued' = <<[op |-> "FromJSON", given |-> v.items,
                           parsed |-> v.json # "invalid",
                           before |-> HistorySlice(sess),
                           after |-> HistorySlice(after)]>>
           /\ nreq < MaxReqs
           /\ nreq' = nreq + 1
           /\ sess' = after
           /\ UNCHANGED otherThanReq

ReqNext == ReqChat \/ ReqSetHistory \/ ReqFromJSON

SpecRequest == ReqInit /\ [][ReqNext]_vars

\* the latest call is SetHistory, or a FromJSON whose text parsed
Replaced ==
    /\ issued # <<>>
    /\ \/ issued[1].op = "SetHistory"
       \/ issued[1].op = "FromJSON" /\ issued[1].parsed

\* C22: after SetHistory(h), and after FromJSON of the JSON of h, on a Chat
\* in any state, the history is h (its last C messages when h is longer than
\* the capacity C) and holds none of the messages it held before.
C22_SetHistoryReplaces ==
    Replaced =>
        issued[1].after =
            LastN(issued[1].given, Min(Len(issued[1].given), ChatCap))

\* What SetHistory and FromJSON do: they append; the history afterwards is
\* the last C messages of what it held followed by the given list.
SetHistoryAppends ==
    Replaced =>
        LET all == issued[1].before \o issued[1].given
        IN issued[1].after = LastN(all, Min(Len(all), ChatCap))

\* On an empty history SetHistory and FromJSON do leave the given list.
SetHistoryOnEmptyReplaces ==
    (Replaced /\ issued[1].before = <<>>)
        => issued[1].after =
              LastN(issued[1].given, Min(Len(issued[1].given), ChatCap))

\* SetHistory of one message on a Chat that held messages left one of them
\* in the history
EarlierMessageSurvived ==
    /\ Replaced
    /\ issued[1].op = "SetHistory"
    /\ Len(issued[1].given) = 1
    /\ Len(issued[1].after) = 2
    /\ issued[1].after[1] = issued[1].before[Len(issued[1].before)]

\* the latest call is a Chat.Chat call
ChatCalled == issued # <<>> /\ issued[1].op = "Chat"

\* the last messages of s that a History of capacity ChatCap holds
Recent(s) == LastN(s, Min(Len(s), ChatCap))

\* the messages a Chat.Chat call brings in before the model is called: the
\* user message of a non-empty text, then the tool-result messages
Incoming(call) ==
    (IF call.text # "" THEN <<UserMsg(call.text)>> ELSE <<>>)
        \o call.co.toolcalled

\* the assistant message of a reply with text
Reply(call) ==
    IF HasText(call.outcome) THEN <<AssistantMsg("re")>> ELSE <<>>

\* C23: the request of a Chat.Chat call carries tools exactly when the call
\* passed no tool-result messages and a non-empty tool list, and then it
\* carries that list; a call that passes tool-result messages carries none.
C23_ToolsOnlyOnFreshTurn ==
    ChatCalled =>
        /\ (issued[1].req.tools # <<>>)
              <=> (issued[1].co.toolcalled = <<>> /\ issued[1].co.tools # <<>>)
        /\ issued[1].req.tools # <<>> => issued[1].req.tools = issued[1].co.tools

\* a call passed tool-result messages and a tool list, and its request
\* carries no tools
C23_Witness ==
    /\ ChatCalled
    /\ issued[1].co.toolcalled # <<>>
    /\ issued[1].co.tools # <<>>
    /\ issued[1].req.tools = <<>>

\* C24: the message list of a request is the system-role messages of the
\* call followed by the whole history as it is once the call's user and
\* tool-result messages are stored; the history never holds a system-role
\* message: after the call it is what it was, then the user message, the
\* tool-result messages and the assistant message of the call.
C24_SystemFirstNeverStored ==
    /\ ChatCalled =>
          /\ issued[1].req.messages =
                issued[1].co.roleSystem
                    \o Recent(issued[1].before \o Incoming(issued[1]))
          /\ issued[1].after =
                Recent(issued[1].before \o Incoming(issued[1]) \o Reply(issued[1]))
    /\ \A i \in 1..Len(HistorySlice(sess)) :
          HistorySlice(sess)[i].role # RoleSystem

\* the second call with a system-role message: its request begins with the
\* system message and goes on with the history of both calls, and the
\* history holds no system message
C24_Witness ==
    /\ ChatCalled
    /\ nreq = 2
    /\ issued[1].co.roleSystem = <<SystemMsg>>
    /\ issued[1].before # <<>>
    /\ issued[1].text # ""
    /\ Len(issued[1].req.messages) = ChatCap + 1
    /\ issued[1].req.messages[1] = SystemMsg
    /\ Len(HistorySlice(sess)) = ChatCap

\* the latest call is a Chat.Chat call that returned an error
ChatFailed == ChatCalled /\ issued[1].outcome \in Failures

\* C39: after a Chat.Chat call that fails, on the model call or on the sink,
\* the history is the history before the call followed by the inputs of the
\* call (the user message of a non-empty text, then the tool-result
\* messages passed), cut to the capacity: no input is taken back and no
\* other message is added.
C39_FailedCallKeepsInputs ==
    ChatFailed =>
        issued[1].after = Recent(issued[1].before \o Incoming(issued[1]))

\* a call with a text and one tool-result message failed on the sink, on a
\* history that held a message: the two inputs are the history, and the
\* message held before is evicted
C39_Witness ==
    /\ ChatFailed
    /\ issued[1].outcome = "sink"
    /\ issued[1].text # ""
    /\ Len(issued[1].co.toolcalled) = 1
    /\ issued[1].before # <<>>
    /\ issued[1].after = <<UserMsg(issued[1].text)>> \o issued[1].co.toolcalled

\* the latest call is a Chat.Chat call with the text and the options of
\* Phase B: for one of the configurations, a non-empty batch of results
PhaseBCalled ==
    /\ ChatCalled
    /\ issued[1].text = ""
    /\ \E c \in Configs, n \in 1..MaxCalls :
          issued[1].co = PhaseBOpts(c, ToolResults(n))

\* C26: a Chat.Chat call made as Phase B makes it stores every tool-result
\* message before the request is built: the request's messages are the
\* system messages, then the history with the tool results after what it
\* held; the request carries no tools and is a streaming one; no user
\* message is stored; the assistant message is stored after the results.
C26_PhaseBRequest ==
    PhaseBCalled =>
        /\ issued[1].req.messages =
              issued[1].co.roleSystem
                  \o Recent(issued[1].before \o issued[1].co.toolcalled)
        /\ issued[1].req.tools = <<>>
        /\ issued[1].req.stream
        /\ issued[1].after =
              Recent(issued[1].before \o issued[1].co.toolcalled
                         \o Reply(issued[1]))

\* a Phase B call after a turn that stored a user message: the request ends
\* with the tool result, which follows the user message, and the assistant
\* message is the last of the history
C26_Witness ==
    /\ PhaseBCalled
    /\ issued[1].before = <<UserMsg("hi")>>
    /\ issued[1].co.toolcalled = ToolResults(1)
    /\ issued[1].req.messages = <<UserMsg("hi"), ToolResult(1)>>
    /\ issued[1].after = <<ToolResult(1), AssistantMsg("re")>>

(***************************************************************************)
(* SpecPhases: two goroutines run a turn each on one Chat, as lines        *)
(* 177-224 of ChatsManager.Chat make it: the Chat.Chat call of Phase A     *)
(* and, when it returned tool calls and the dispatch collected results,    *)
(* the Chat.Chat call of Phase B with them.  Each call takes the Chat's    *)
(* lock at its start and releases it in its deferred function.             *)
(***************************************************************************)
\* the configuration of the registry: a system message and one tool
PhaseCfg == [roleSystem |-> <<SystemMsg>>, catalogue |-> <<"f">>]

PhasesInit ==
    /\ HistIdle
    /\ StorIdle
    /\ ReqIdle
    /\ TurnRestIdle
    /\ McpIdle
    /\ DispIdle
    /\ MgrIdle
    /\ StreamRestIdle
    /\ chat = ChatNew("c", ChatCap)
    /\ turns = [c \in Callers |->
                  [pc |-> "lockA", outcome |-> "", results |-> <<>>,
                   base |-> <<>>, own |-> <<>>, afterA |-> <<>>]]

\* chats_manager.go:177-181 and chat.go:186-220: the call of Phase A takes
\* the lock and stores the user message
PhaseALock(c) ==
    /\ turns[c].pc = "lockA"
    /\ CanLock(chat)
    /\ chat' = [chat EXCEPT
                   !.locked = TRUE,
                   !.history = BeforeRequest(@, Question(c), PhaseAOpts(PhaseCfg))]
    /\ turns' = [turns EXCEPT ![c].pc = "modelA",
                              ![c].base = ChatHistory(chat),
                              ![c].own = <<UserMsg(Question(c))>>]
    /\ UNCHANGED otherThanLock

\* chats_manager.go:219-224 and chat.go:186-220: the call of Phase B takes
\* the lock and stores the tool-result messages
PhaseBLock(c) ==
    /\ turns[c].pc = "lockB"
    /\ CanLock(chat)
    /\ chat' = [chat EXCEPT
                   !.locked = TRUE,
                   !.history = BeforeRequest(@, "",
                                   PhaseBOpts(PhaseCfg, turns[c].results))]
    /\ turns' = [turns EXCEPT ![c].pc = "modelB",
                              ![c].base = ChatHistory(chat),
                              ![c].own = turns[c].results]
    /\ UNCHANGED otherThanLock

\* chat.go:227-231: the model call of either phase: it fails, answers with
\* text, which is stored, or asks for tools
PhaseModel(c) ==
    /\ turns[c].pc \in {"modelA", "modelB"}
    /\ \E outcome \in Outcomes :
        /\ chat' = [chat EXCEPT
                       !.history = IF HasText(outcome)
                                   THEN HistoryStore(@, AssistantMsg(Answer(c)))
                                   ELSE @]
        /\ turns' = [turns EXCEPT
                        ![c].outcome = outcome,
                        ![c].own = IF HasText(outcome)
                                   THEN @ \o <<AssistantMsg(Answer(c))>> ELSE @,
                        ![c].pc = IF turns[c].pc = "modelA" THEN "unlockA"
                                  ELSE "unlockB"]
    /\ UNCHANGED otherThanLock

\* chat.go:187-190 and chats_manager.go:182-187, 225-228: the deferred
\* function of the call unlocks; Phase A goes on to the dispatch when it
\* returned no error and tool calls, every other call ends the turn
PhaseUnlock(c) ==
    /\ turns[c].pc \in {"unlockA", "unlockB"}
    /\ chat' = Deferred(chat)
    /\ turns' = [turns EXCEPT
                    ![c].afterA = IF turns[c].pc = "unlockA"
                                  THEN ChatHistory(chat) ELSE @,
                    ![c].pc = IF turns[c].pc = "unlockA"
                                 /\ turns[c].outcome \notin Failures
                                 /\ HasTools(turns[c].outcome)
                              THEN "dispatch" ELSE "done"]
    /\ UNCHANGED otherThanLock

\* chats_manager.go:187-218: the tools run with the lock released; the
\* turn ends when no result was collected, else Phase B follows
PhaseDispatch(c) ==
    /\ turns[c].pc = "dispatch"
    /\ \E n \in 0..MaxCalls :
        turns' = [turns EXCEPT ![c].results = ToolResults(n),
                               ![c].pc = IF n > 0 THEN "lockB" ELSE "done"]
    /\ UNCHANGED chat
    /\ UNCHANGED otherThanLock

PhasesNext ==
    \/ \E c \in Callers : PhaseALock(c)
    \/ \E c \in Callers : PhaseModel(c)
    \/ \E c \in Callers : PhaseUnlock(c)
    \/ \E c \in Callers : PhaseDispatch(c)
    \/ \E c \in Callers : PhaseBLock(c)

SpecPhases == PhasesInit /\ [][PhasesNext]_vars

\* the callers inside a Chat.Chat call, between Lock and Unlock
InCall == {c \in Callers :
              turns[c].pc \in {"modelA", "unlockA", "modelB", "unlockB"}}

\* the callers inside the Chat.Chat call of Phase B
InPhaseB == {c \in Callers : turns[c].pc \in {"modelB", "unlockB"}}

HistMsgs == {UserMsg("m1"), UserMsg("m2")}

HistInit ==
    /\ capacity \in 1..MaxCap
    /\ h = HistoryNew(capacity)
    /\ log = <<>>
    /\ sliced = NoSlice
    /\ StorIdle
    /\ ReqIdle
    /\ TurnRestIdle
    /\ McpIdle
    /\ LockIdle
    /\ StreamIdle
    /\ DispIdle
    /\ MgrIdle

HStore ==
    /\ Len(log) < MaxAppend
    /\ \E m \in HistMsgs :
        /\ h' = HistoryStore(h, m)
        /\ log' = Append(log, m)
        /\ sliced' = NoSlice
        /\ UNCHANGED <<capacity, otherThanHist>>

HStoreMany ==
    \E ms \in SeqsUpTo(HistMsgs, MaxMany) :
        /\ Len(log) + Len(ms) <= MaxAppend
        /\ h' = HistoryStoreMany(h, ms)
        /\ log' = log \o ms
        /\ sliced' = NoSlice
        /\ UNCHANGED <<capacity, otherThanHist>>

HistNext == HStore \/ HStoreMany

SpecHistory == HistInit /\ [][HistNext]_vars

(***************************************************************************)
(* SpecHistoryOps: the same History with Clear and Slice calls in the mix. *)
(***************************************************************************)
\* History.Clear
HClear ==
    /\ h' = HistoryClear(h)
    /\ sliced' = NoSlice
    /\ UNCHANGED <<log, capacity, otherThanHist>>

\* History.Slice; sliced keeps the History before the first call of a run
\* of calls, what the latest call returned, and whether it is a repeat
HSlice ==
    /\ h' = SliceCall(h).ring
    /\ sliced' = [n |-> IF sliced.n = 0 THEN 1 ELSE 2,
                  ring |-> IF sliced.n = 0 THEN h ELSE sliced.ring,
                  x |-> SliceCall(h).x]
    /\ UNCHANGED <<log, capacity, otherThanHist>>

HistOpsNext == HStore \/ HStoreMany \/ HClear \/ HSlice

SpecHistoryOps == HistInit /\ [][HistOpsNext]_vars

\* C11: after Clear() on a History in any state, Slice() is empty and Len()
\* is the capacity it was before.
C11_ClearEmpties ==
    [][HClear => (HistorySlice(h') = <<>> /\ HistoryLen(h') = HistoryLen(h))]_vars

\* The part of C11 that holds: Clear() leaves Len() as it was.
ClearKeepsLen == [][HClear => HistoryLen(h') = HistoryLen(h)]_vars

\* C12: in every state reached by Store, StoreMany and Clear, Len() is the
\* capacity given to history.New.
C12_LenIsCapacity == HistoryLen(h) = capacity

\* the ring has wrapped, a Clear() has emptied a slot since, and the History
\* holds fewer messages than slots
C12_Witness ==
    /\ capacity >= 2
    /\ Len(log) > capacity
    /\ Occupancy(h) < capacity
    /\ Occupancy(h) > 0

\* C13: a Slice() call leaves every slot and the write position as they
\* were, and a call that follows another with no write in between returns
\* the same sequence.
C13_SliceIsPureRead ==
    sliced.n > 0 => (h = sliced.ring /\ SliceCall(h).x = sliced.x)

\* Slice() has been called twice in a row on a wrapped History
C13_Witness ==
    /\ sliced.n = 2
    /\ Len(log) > capacity
    /\ Len(sliced.x) >= 2

\* C1: after L appends (Store or StoreMany, any mix) to a new History of
\* capacity C >= 1, Slice() has length min(L, C) and equals the last
\* min(L, C) appended messages in append order, oldest first.
C1_SliceIsLastAppended ==
    /\ Len(HistorySlice(h)) = Min(Len(log), HistoryLen(h))
    /\ HistorySlice(h) = LastN(log, Min(Len(log), HistoryLen(h)))

\* C1 witness: the ring has wrapped (more appends than slots, at least two
\* slots) and the surviving messages are not all equal.
C1_Witness ==
    /\ HistoryLen(h) >= 2
    /\ Len(log) > HistoryLen(h)
    /\ HistorySlice(h)[1] # HistorySlice(h)[HistoryLen(h)]
====
